---- MODULE Spec2Model ----
(***************************************************************************)
(* A model of the subsystems of the gateway:                              *)
(*   - the conversation-tree queue manager (messaging/trees),             *)
(*   - the global provider rate limiter (providers/rate_limit.py),        *)
(*   - the non-streaming response converter (providers/nvidia_mixins.py), *)
(*   - the streaming think-tag parser (providers/common),                 *)
(*   - the SSE builder (providers/common),                                *)
(*   - the error mapper (providers/nvidia_mixins.py),                     *)
(*   - the request builder (providers/nvidia_mixins.py),                  *)
(*   - the token counter (api/request_utils.py),                          *)
(*   - the provider cache (api/dependencies.py).                          *)
(* Each subsystem has its own specification over the shared variables;    *)
(* a specification leaves the other subsystems' variables untouched.      *)
(***************************************************************************)
EXTENDS Integers, Sequences, FiniteSets, TLC

(***************************************************************************)
(* Bounds of the model.                                                    *)
(***************************************************************************)
\* message (node) ids ever created by create_tree / add_to_tree
MaxNodes == 3
\* drain-loop tasks alive at the same time
MaxTasks == 2
\* chunks of upstream text fed to the think-tag parser
MaxChunks == 4
\* operations on one SSE builder
MaxOps == 5
\* messages of a request whose tokens are counted, and blocks of a message
MaxMessages == 2
MaxBlocks == 2
\* provider instances ever built
MaxProviders == 4

None == 0
NoMsg == ""

NodeIds == 1..MaxNodes
TaskIds == 1..MaxTasks

\* MessageState
PENDING == "PENDING"
IN_PROGRESS == "IN_PROGRESS"
COMPLETED == "COMPLETED"
ERROR == "ERROR"
Terminal == {COMPLETED, ERROR}

\* error messages the manager writes
CancelledByUser == "Cancelled by user"
StaleCleanedUp == "Stale task cleaned up"
LostDuringRestart == "Lost during server restart"
\* error messages a failing job raises
JobErrors == {"boom"}
ParentFailed(msg) == "Parent failed: " \o msg

Range(s) == {s[i] : i \in 1..Len(s)}
RemoveAll(s, x) == LET keep(y) == y # x IN SelectSeq(s, keep)

VARIABLES
  treeObjs,      \* MessageTree objects by root_id (also those removed from the repository)
  trees,         \* TreeRepository._trees: the root ids held by the repository
  node_to_tree,  \* TreeRepository._node_to_tree: id -> root_id, None when absent
  tasks,         \* live drain-loop tasks: id -> [tree, node, status]
  adding,        \* the add_to_tree call in flight (between its lock sections), or NoAdd
  nextNode       \* the next fresh message id

treeVars == <<treeObjs, trees, node_to_tree, tasks, adding, nextNode>>

VARIABLES
  now,           \* time.time(), in seconds
  instance,      \* GlobalRateLimiter._instance: a limiter object id, or None
  limiters,      \* the GlobalRateLimiter objects ever created: [blocked_until, level]
  callers,       \* wait_if_blocked calls: caller -> [pc, self, wake, waited]
  returns,       \* the singleton's wait_if_blocked returns in each slot of the last window
  last429        \* when _map_error last mapped a 429 (no reset_instance since), or Never

rateVars == <<now, instance, limiters, callers, returns, last429>>

VARIABLES
  response_json, \* the upstream chat-completion response handed to convert_response
  delivered      \* what convert_response returned for it, or NotConverted

convVars == <<response_json, delivered>>

VARIABLES
  parser,        \* ThinkTagParser: [state, buffer]
  fed,           \* the chunks fed to the parser so far
  emitted,       \* the ContentChunks the parser yielded so far, in order
  finalized      \* whether finalize() was called

thinkVars == <<parser, fed, emitted, finalized>>

VARIABLES
  sse,           \* SSEBuilder: [started, blocks], a block being [kind, open, args_buf]
  events,        \* the events the builder emitted so far, in order
  ops            \* the names of the operations called on the builder, in order

sseVars == <<sse, events, ops>>

VARIABLES
  raised,        \* the exception the upstream call raised
  mapped         \* what _map_error returned for it, or NotMapped

errVars == <<raised, mapped>>

VARIABLES
  request_data,  \* the Anthropic-format request handed to _build_request_body
  nim_params,    \* RequestBuilderMixin._nim_params: the provider's defaults by key
  body           \* the OpenAI-format body built for it, or NotBuilt

buildVars == <<request_data, nim_params, body>>

VARIABLES
  count_request, \* the messages, system and tools handed to get_token_count
  input_tokens   \* what get_token_count returned for them, or NotCounted

countVars == <<count_request, input_tokens>>

VARIABLES
  provider_cache, \* _provider_cache: the [type, provider] entries in insertion order
  closes,         \* how often each provider instance ever built had its client closed
  cleanup,        \* the cleanup_provider call in flight: [pc, todo, size]
  last_get,       \* the outcome of the latest ProviderFactory.get
  got             \* per type, the instances get returned since the last completed cleanup

provVars == <<provider_cache, closes, cleanup, last_get, got>>

\* what the tree queue manager never touches
nonTree == <<rateVars, convVars, thinkVars, sseVars, errVars, buildVars, countVars, provVars>>
\* what the rate limiter never touches
nonRate == <<treeVars, convVars, thinkVars, sseVars, errVars, buildVars, countVars, provVars>>
\* what the response converter never touches
nonConv == <<treeVars, rateVars, thinkVars, sseVars, errVars, buildVars, countVars, provVars>>
\* what the think-tag parser never touches
nonThink == <<treeVars, rateVars, convVars, sseVars, errVars, buildVars, countVars, provVars>>
\* what the SSE builder never touches
nonSSE == <<treeVars, rateVars, convVars, thinkVars, errVars, buildVars, countVars, provVars>>
\* what the error mapper's caller never touches
nonErr == <<treeVars, rateVars, convVars, thinkVars, sseVars, buildVars, countVars, provVars>>
\* what the request builder never touches
nonBuild == <<treeVars, rateVars, convVars, thinkVars, sseVars, errVars, countVars, provVars>>
\* what token counting never touches
nonCount == <<treeVars, rateVars, convVars, thinkVars, sseVars, errVars, buildVars, provVars>>
\* what the provider cache never touches
nonProv == <<treeVars, rateVars, convVars, thinkVars, sseVars, errVars, buildVars, countVars>>

(***************************************************************************)
(* Tree data (messaging/trees/data.py): MessageNode and MessageTree.       *)
(***************************************************************************)
MessageNode(parent) ==
  [state |-> PENDING, error_message |-> NoMsg, parent_id |-> parent,
   children_ids |-> <<>>, completed_at |-> FALSE]

MessageTree(root) ==
  [root_id |-> root, nodes |-> (root :> MessageNode(None)), queue |-> <<>>,
   current_node_id |-> None, current_task |-> None, is_processing |-> FALSE]

Rank(state) ==
  CASE state = PENDING -> 0
    [] state = IN_PROGRESS -> 1
    [] OTHER -> 2

\* update_state that writes whatever the node's state is
update_state_forced(tree, n, state, msg) ==
  IF n \notin DOMAIN tree.nodes
  THEN tree
  ELSE [tree EXCEPT !.nodes[n].state = state,
                    !.nodes[n].error_message = IF msg # NoMsg THEN msg ELSE @]

\* update_state respects the monotone order PENDING -> IN_PROGRESS -> {COMPLETED, ERROR}
update_state(tree, n, state, msg) ==
  IF n \notin DOMAIN tree.nodes \/ Rank(tree.nodes[n].state) >= Rank(state)
  THEN tree
  ELSE [tree EXCEPT !.nodes[n].state = state,
                    !.nodes[n].error_message = IF msg # NoMsg THEN msg ELSE @,
                    !.nodes[n].completed_at = IF state \in Terminal THEN TRUE ELSE @]

add_node(tree, n, parent) ==
  [tree EXCEPT !.nodes =
     (n :> MessageNode(parent)) @@ [tree.nodes EXCEPT ![parent].children_ids = Append(@, n)]]

enqueue_pending(tree, n) == [tree EXCEPT !.queue = Append(@, n)]

\* a queue that is emptied when one node is taken out of it
remove_from_queue_emptied(tree, n) == [tree EXCEPT !.queue = <<>>]

remove_from_queue(tree, n) == [tree EXCEPT !.queue = RemoveAll(@, n)]

\* a dequeue that loses the head: it is popped and never becomes the current node
dequeue_next_lost(tree) == [tree EXCEPT !.queue = Tail(@)]

\* pop the head; mark IN_PROGRESS and set current_node_id
dequeue_next(tree) ==
  LET h == Head(tree.queue)
      popped == [tree EXCEPT !.queue = Tail(@), !.current_node_id = h]
  IN IF h \in DOMAIN tree.nodes
     THEN [popped EXCEPT !.nodes[h].state = IN_PROGRESS]
     ELSE popped

set_current_task(tree, t) == [tree EXCEPT !.current_task = t]

clear_current_task(tree) == [tree EXCEPT !.current_task = None]

is_current_node(tree, n) == tree.current_node_id = n

reset_processing_state(tree) ==
  [tree EXCEPT !.is_processing = FALSE, !.current_node_id = None]

\* pop all queued; mark each ERROR "Cancelled by user"; return them
drain_queue_and_mark_cancelled(tree) ==
  LET InTree(n) == n \in DOMAIN tree.nodes
      marked == [n \in DOMAIN tree.nodes |->
                   IF n \in Range(tree.queue)
                   THEN [tree.nodes[n] EXCEPT !.state = ERROR,
                                              !.error_message = CancelledByUser]
                   ELSE tree.nodes[n]]
  IN [tree |-> [tree EXCEPT !.queue = <<>>, !.nodes = marked],
      ret |-> SelectSeq(tree.queue, InTree)]

RECURSIVE Descend(_, _)
Descend(tree, todo) ==
  IF todo = <<>> THEN <<>>
  ELSE LET n == Head(todo)
       IN IF n \in DOMAIN tree.nodes
          THEN <<n>> \o Descend(tree, tree.nodes[n].children_ids \o Tail(todo))
          ELSE Descend(tree, Tail(todo))

\* the subtree of b, b included, every node before its descendants
get_descendants(tree, b) == Descend(tree, <<b>>)

\* detach the subtree of b from its parent's children and drop its nodes
tree_remove_branch(tree, b) ==
  LET gone == Range(get_descendants(tree, b))
      p == tree.nodes[b].parent_id
      kept == [n \in DOMAIN tree.nodes \ gone |->
                 IF n = p
                 THEN [tree.nodes[n] EXCEPT !.children_ids = RemoveAll(@, b)]
                 ELSE tree.nodes[n]]
  IN [tree EXCEPT !.nodes = kept]

(***************************************************************************)
(* Tree repository (messaging/trees/repository.py).                        *)
(***************************************************************************)
get_tree(root_id) == IF root_id \in trees THEN root_id ELSE None

get_tree_for_node(node_id) ==
  LET root_id == node_to_tree[node_id]
  IN IF root_id = None THEN None ELSE get_tree(root_id)

has_node(node_id) == node_to_tree[node_id] # None

\* add_tree: the mapping after adding a tree (its root maps to itself)
add_tree(map, root_id) == [map EXCEPT ![root_id] = root_id]

register_node(map, node_id, root_id) == [map EXCEPT ![node_id] = root_id]

\* unregister_nodes that forgets to pop the ids
unregister_nodes_kept(map, node_ids) == map

unregister_nodes(map, node_ids) ==
  [n \in DOMAIN map |-> IF n \in Range(node_ids) THEN None ELSE map[n]]

\* remove_tree: the mapping after popping every node of the removed tree
remove_tree_map(map, tree) ==
  [n \in DOMAIN map |-> IF n \in DOMAIN tree.nodes THEN None ELSE map[n]]

RECURSIVE get_pending_children(_)
RECURSIVE PendingOf(_, _)
get_pending_children(node_id) ==
  LET r == get_tree_for_node(node_id)
  IN IF r = None THEN <<>>
     ELSE IF node_id \notin DOMAIN treeObjs[r].nodes THEN <<>>
     ELSE PendingOf(treeObjs[r], treeObjs[r].nodes[node_id].children_ids)

PendingOf(tree, cs) ==
  IF cs = <<>> THEN <<>>
  ELSE LET c == Head(cs)
       IN (IF c \in DOMAIN tree.nodes /\ tree.nodes[c].state = PENDING
           THEN <<c>> \o get_pending_children(c)
           ELSE <<>>) \o PendingOf(tree, Tail(cs))

(***************************************************************************)
(* Task handles.  A task runs one job at a time for its tree: "running"    *)
(* while the job runs, "cancelled" once cancel() was requested and the     *)
(* job has not yet surfaced the cancellation, "drain" between two jobs.    *)
(***************************************************************************)
task_live(t) ==
  t # None /\ t \in DOMAIN tasks /\ tasks[t].status \in {"running", "cancelled"}

\* cancel the running task if any; return whether one existed
cancel_current_task(tree) == task_live(tree.current_task)

tasks_after_cancel(tree) ==
  IF cancel_current_task(tree)
  THEN [tasks EXCEPT ![tree.current_task].status = "cancelled"]
  ELSE tasks

FreeTasks == TaskIds \ DOMAIN tasks
NewTask == CHOOSE t \in FreeTasks : \A u \in FreeTasks : t <= u

(***************************************************************************)
(* Tree queue manager (messaging/trees/queue_manager.py).                  *)
(***************************************************************************)
\* a propagation that marks no descendant
MarkAll_skipped(tree, ns, msg) == tree

RECURSIVE MarkAll(_, _, _)
MarkAll(tree, ns, msg) ==
  IF ns = <<>> THEN tree
  ELSE MarkAll(update_state(tree, Head(ns), ERROR, msg), Tail(ns), msg)

mark_node_error(node_id, msg, propagate_to_children) ==
  LET r == get_tree_for_node(node_id)
  IN IF r = None THEN [objs |-> treeObjs, ret |-> <<>>]
     ELSE LET tree == treeObjs[r]
              found == node_id \in DOMAIN tree.nodes
              t1 == IF found THEN update_state(tree, node_id, ERROR, msg) ELSE tree
              kids == IF propagate_to_children THEN get_pending_children(node_id) ELSE <<>>
              t2 == MarkAll(t1, kids, ParentFailed(msg))
          IN [objs |-> [treeObjs EXCEPT ![r] = t2],
              ret |-> (IF found THEN <<node_id>> ELSE <<>>) \o kids]

\* cancel_tree without its step 3: nodes that were never queued are left alone
cancel_tree_cleanup_skipped(tree, cancelled_ids) == tree

\* step 3 of cancel_tree: any other PENDING or IN_PROGRESS node becomes ERROR
cancel_tree_cleanup(tree, cancelled_ids) ==
  [tree EXCEPT !.nodes =
     [n \in DOMAIN tree.nodes |->
        IF tree.nodes[n].state \in {PENDING, IN_PROGRESS} /\ n \notin cancelled_ids
        THEN [tree.nodes[n] EXCEPT !.state = ERROR, !.error_message = StaleCleanedUp]
        ELSE tree.nodes[n]]]

cancel_tree(root_id) ==
  LET tree == treeObjs[root_id]
      cur == tree.current_node_id
      hit == cancel_current_task(tree)
             /\ cur # None /\ cur \in DOMAIN tree.nodes
             /\ tree.nodes[cur].state \notin Terminal
      t1 == IF hit
            THEN [tree EXCEPT !.nodes[cur].state = ERROR,
                              !.nodes[cur].error_message = CancelledByUser]
            ELSE tree
      d == drain_queue_and_mark_cancelled(t1)
      cancelled == (IF hit THEN <<cur>> ELSE <<>>) \o d.ret
      t3 == cancel_tree_cleanup(d.tree, Range(cancelled))
  IN [tree |-> reset_processing_state(t3),
      tasks |-> tasks_after_cancel(tree),
      ret |-> cancelled]

\* cancel_node without its early return for COMPLETED and ERROR nodes
cancel_node_unguarded(node_id) ==
  LET r == get_tree_for_node(node_id)
      tree == treeObjs[r]
      t1 == remove_from_queue(tree, node_id)
  IN [tree |-> [t1 EXCEPT !.nodes[node_id].state = ERROR,
                          !.nodes[node_id].error_message = CancelledByUser,
                          !.nodes[node_id].completed_at = TRUE],
      tasks |-> IF is_current_node(tree, node_id)
                THEN tasks_after_cancel(tree) ELSE tasks,
      ret |-> <<node_id>>]

cancel_node(node_id) ==
  LET r == get_tree_for_node(node_id)
      tree == treeObjs[r]
      t1 == remove_from_queue(tree, node_id)
  IN IF tree.nodes[node_id].state \in Terminal
     THEN [tree |-> tree, tasks |-> tasks, ret |-> <<>>]
     ELSE [tree |-> [t1 EXCEPT !.nodes[node_id].state = ERROR,
                               !.nodes[node_id].error_message = CancelledByUser,
                               !.nodes[node_id].completed_at = TRUE],
           tasks |-> IF is_current_node(tree, node_id)
                     THEN tasks_after_cancel(tree) ELSE tasks,
           ret |-> <<node_id>>]

cancel_branch(branch_root_id) ==
  LET r == get_tree_for_node(branch_root_id)
      tree == treeObjs[r]
      live(n) == tree.nodes[n].state \notin Terminal
      hit == SelectSeq(get_descendants(tree, branch_root_id), live)
      NotHit(n) == n \notin Range(hit) \/ is_current_node(tree, n)
  IN [tree |-> [tree EXCEPT
                  !.queue = SelectSeq(@, NotHit),
                  !.nodes = [n \in DOMAIN tree.nodes |->
                               IF n \in Range(hit)
                               THEN [tree.nodes[n] EXCEPT !.state = ERROR,
                                                          !.error_message = CancelledByUser,
                                                          !.completed_at = TRUE]
                               ELSE tree.nodes[n]]],
      tasks |-> IF tree.current_node_id \in Range(hit)
                THEN tasks_after_cancel(tree) ELSE tasks,
      ret |-> hit]

\* cleanup_stale_nodes that reconciles only the nodes that were running
cleanup_stale_nodes_running(tree) ==
  [tree EXCEPT !.nodes =
     [n \in DOMAIN tree.nodes |->
        IF tree.nodes[n].state = IN_PROGRESS
        THEN [tree.nodes[n] EXCEPT !.state = ERROR, !.error_message = LostDuringRestart]
        ELSE tree.nodes[n]]]

cleanup_stale_nodes(tree) ==
  [tree EXCEPT !.nodes =
     [n \in DOMAIN tree.nodes |->
        IF tree.nodes[n].state \in {PENDING, IN_PROGRESS}
        THEN [tree.nodes[n] EXCEPT !.state = ERROR, !.error_message = LostDuringRestart]
        ELSE tree.nodes[n]]]

\* the count cleanup_stale_nodes returns: one per node it changes, over the trees rs
RECURSIVE stale_count(_, _)
stale_count(objs, rs) ==
  IF rs = {} THEN 0
  ELSE LET r == CHOOSE x \in rs : TRUE
       IN Cardinality({n \in DOMAIN objs[r].nodes :
                         objs[r].nodes[n].state \in {PENDING, IN_PROGRESS}})
          + stale_count(objs, rs \ {r})

(***************************************************************************)
(* Operations of the tree queue manager, as actions.                       *)
(***************************************************************************)
NoAdd == [parent |-> None, node |-> None, tree |-> None, pc |-> "idle"]

\* Serialization.  A tree is saved as its node map, its queue and its current
\* pointer: the task handle and the processing flag are not part of the saved
\* form, and a loaded tree starts with neither.
node_to_dict_childless(node) ==
  [state |-> node.state, error_message |-> node.error_message,
   parent_id |-> node.parent_id, children_ids |-> <<>>,
   completed_at |-> node.completed_at]

node_to_dict(node) ==
  [state |-> node.state, error_message |-> node.error_message,
   parent_id |-> node.parent_id, children_ids |-> node.children_ids,
   completed_at |-> node.completed_at]

node_from_dict(d) ==
  [state |-> d.state, error_message |-> d.error_message, parent_id |-> d.parent_id,
   children_ids |-> d.children_ids, completed_at |-> d.completed_at]

tree_to_dict(tree) ==
  [root_id |-> tree.root_id,
   nodes |-> [n \in DOMAIN tree.nodes |-> node_to_dict(tree.nodes[n])],
   queue |-> tree.queue,
   current_node_id |-> tree.current_node_id]

tree_from_dict(d) ==
  [root_id |-> d.root_id,
   nodes |-> [n \in DOMAIN d.nodes |-> node_from_dict(d.nodes[n])],
   queue |-> d.queue,
   current_node_id |-> d.current_node_id,
   current_task |-> None,
   is_processing |-> FALSE]

\* TreeRepository.to_dict: the trees of the repository by root id, and a copy
\* of the index, which holds the registered node ids only.
to_dict ==
  [trees |-> [r \in trees |-> tree_to_dict(treeObjs[r])],
   node_to_tree |-> [n \in {m \in NodeIds : node_to_tree[m] # None} |-> node_to_tree[n]]]

\* TreeRepository.from_dict, wrapped by TreeQueueManager.from_dict: a fresh
\* manager (no task) over the loaded trees and index.
from_dict(data) ==
  [_trees |-> [r \in DOMAIN data.trees |-> tree_from_dict(data.trees[r])],
   _node_to_tree |-> data.node_to_tree,
   tasks |-> <<>>]

TreeInit ==
  /\ treeObjs = <<>>
  /\ trees = {}
  /\ node_to_tree = [n \in NodeIds |-> None]
  /\ tasks = <<>>
  /\ adding = NoAdd
  /\ nextNode = 1

\* create_tree: a new tree whose root is a fresh message id
CreateTree ==
  /\ nextNode <= MaxNodes
  /\ treeObjs' = (nextNode :> MessageTree(nextNode)) @@ treeObjs
  /\ trees' = trees \cup {nextNode}
  /\ node_to_tree' = add_tree(node_to_tree, nextNode)
  /\ nextNode' = nextNode + 1
  /\ UNCHANGED <<tasks, adding, nonTree>>

\* add_to_tree, first lock section: look the parent's tree up
AddToTreeLookup(parent_node_id) ==
  /\ adding = NoAdd
  /\ nextNode <= MaxNodes
  /\ has_node(parent_node_id)
  /\ get_tree_for_node(parent_node_id) # None
  /\ adding' = [parent |-> parent_node_id, node |-> nextNode,
                tree |-> get_tree_for_node(parent_node_id), pc |-> "add_node"]
  /\ nextNode' = nextNode + 1
  /\ UNCHANGED <<treeObjs, trees, node_to_tree, tasks, nonTree>>

\* add_to_tree, tree.add_node under the tree's lock (raises when the parent is gone)
AddToTreeAddNode ==
  /\ adding.pc = "add_node"
  /\ IF adding.parent \in DOMAIN treeObjs[adding.tree].nodes
     THEN /\ treeObjs' = [treeObjs EXCEPT
                            ![adding.tree] = add_node(@, adding.node, adding.parent)]
          /\ adding' = [adding EXCEPT !.pc = "register"]
     ELSE /\ adding' = NoAdd
          /\ UNCHANGED treeObjs
  /\ UNCHANGED <<trees, node_to_tree, tasks, nextNode, nonTree>>

\* add_to_tree registering the node under its parent's id instead of the root id
add_to_tree_root_parent == adding.parent

\* the root id add_to_tree registers the new node under
add_to_tree_root == treeObjs[adding.tree].root_id

\* add_to_tree, second lock section: register the node
AddToTreeRegister ==
  /\ adding.pc = "register"
  /\ node_to_tree' = register_node(node_to_tree, adding.node, add_to_tree_root)
  /\ adding' = NoAdd
  /\ UNCHANGED <<treeObjs, trees, tasks, nextNode, nonTree>>

\* enqueue_and_start (processor): start the drain loop when the tree is not
\* processing and its queue is empty (return False), else push the node (True)
enqueue_and_start(tree, node_id) ==
  IF ~tree.is_processing /\ tree.queue = <<>>
  THEN [tree |-> set_current_task(
                   [tree EXCEPT !.is_processing = TRUE,
                                !.current_node_id = node_id,
                                !.nodes[node_id].state = IN_PROGRESS],
                   NewTask),
        tasks |-> (NewTask :> [tree |-> tree.root_id, node |-> node_id,
                               status |-> "running"]) @@ tasks,
        ret |-> FALSE]
  ELSE [tree |-> enqueue_pending(tree, node_id), tasks |-> tasks, ret |-> TRUE]

\* enqueue: no tree for the node: log and return False; else enqueue_and_start
enqueue(node_id) ==
  LET r == get_tree_for_node(node_id)
  IN IF r = None
     THEN [objs |-> treeObjs, tasks |-> tasks, ret |-> FALSE]
     ELSE LET e == enqueue_and_start(treeObjs[r], node_id)
          IN [objs |-> [treeObjs EXCEPT ![r] = e.tree], tasks |-> e.tasks, ret |-> e.ret]

\* a call of enqueue the platform can make: any id without a tree, or a PENDING
\* node of a tree that is not queued yet (a task handle must be free to start it)
CanEnqueue(node_id) ==
  LET r == get_tree_for_node(node_id)
      tree == treeObjs[r]
  IN r # None =>
       /\ node_id \in DOMAIN tree.nodes
       /\ tree.nodes[node_id].state = PENDING
       /\ node_id \notin Range(tree.queue)
       /\ (~tree.is_processing /\ tree.queue = <<>>) => FreeTasks # {}

\* enqueue -> enqueue_and_start; the handler enqueues a node once, right after creating it
Enqueue(node_id) ==
  /\ CanEnqueue(node_id)
  /\ treeObjs' = enqueue(node_id).objs
  /\ tasks' = enqueue(node_id).tasks
  /\ UNCHANGED <<trees, node_to_tree, adding, nextNode, nonTree>>

\* the job returns: its node is COMPLETED, the current task pointer is cleared
JobSucceed(t) ==
  /\ t \in DOMAIN tasks
  /\ tasks[t].status = "running"
  /\ treeObjs' = [treeObjs EXCEPT ![tasks[t].tree] =
        clear_current_task(update_state(@, tasks[t].node, COMPLETED, NoMsg))]
  /\ tasks' = [tasks EXCEPT ![t].status = "drain"]
  /\ UNCHANGED <<trees, node_to_tree, adding, nextNode, nonTree>>

\* the job raises: mark_node_error with propagation, then clear the pointer
JobFail(t, msg) ==
  /\ t \in DOMAIN tasks
  /\ tasks[t].status = "running"
  /\ LET m == mark_node_error(tasks[t].node, msg, TRUE)
     IN treeObjs' = [m.objs EXCEPT ![tasks[t].tree] = clear_current_task(@)]
  /\ tasks' = [tasks EXCEPT ![t].status = "drain"]
  /\ UNCHANGED <<trees, node_to_tree, adding, nextNode, nonTree>>

\* the cancelled job surfaces its cancellation: the node is marked ERROR
\* (no propagation), the pointer is cleared and the loop goes on
JobUnwind(t) ==
  /\ t \in DOMAIN tasks
  /\ tasks[t].status = "cancelled"
  /\ LET m == mark_node_error(tasks[t].node, CancelledByUser, FALSE)
     IN treeObjs' = [m.objs EXCEPT ![tasks[t].tree] = clear_current_task(@)]
  /\ tasks' = [tasks EXCEPT ![t].status = "drain"]
  /\ UNCHANGED <<trees, node_to_tree, adding, nextNode, nonTree>>

\* the drain loop: start the next queued node, or stop when the queue is exhausted
DrainNext(t) ==
  /\ t \in DOMAIN tasks
  /\ tasks[t].status = "drain"
  /\ LET r == tasks[t].tree
         tree == treeObjs[r]
     IN IF tree.queue = <<>>
        THEN /\ treeObjs' = [treeObjs EXCEPT ![r].is_processing = FALSE]
             /\ tasks' = [u \in DOMAIN tasks \ {t} |-> tasks[u]]
        ELSE LET h == Head(tree.queue)
             IN IF h \in DOMAIN tree.nodes
                THEN /\ treeObjs' = [treeObjs EXCEPT ![r] =
                                       set_current_task(dequeue_next(tree), t)]
                     /\ tasks' = [tasks EXCEPT ![t].node = h, ![t].status = "running"]
                ELSE /\ treeObjs' = [treeObjs EXCEPT ![r] = dequeue_next(tree)]
                     /\ UNCHANGED tasks
  /\ UNCHANGED <<trees, node_to_tree, adding, nextNode, nonTree>>

MarkNodeError(node_id, msg, propagate_to_children) ==
  /\ get_tree_for_node(node_id) # None
  /\ LET m == mark_node_error(node_id, msg, propagate_to_children)
     IN /\ treeObjs' = m.objs
  /\ UNCHANGED <<trees, node_to_tree, tasks, adding, nextNode, nonTree>>

CancelTree(root_id) ==
  /\ get_tree(root_id) # None
  /\ LET c == cancel_tree(root_id)
     IN /\ treeObjs' = [treeObjs EXCEPT ![root_id] = c.tree]
        /\ tasks' = c.tasks
  /\ UNCHANGED <<trees, node_to_tree, adding, nextNode, nonTree>>

CancelNode(node_id) ==
  /\ get_tree_for_node(node_id) # None
  /\ node_id \in DOMAIN treeObjs[get_tree_for_node(node_id)].nodes
  /\ LET c == cancel_node(node_id)
     IN /\ treeObjs' = [treeObjs EXCEPT ![get_tree_for_node(node_id)] = c.tree]
        /\ tasks' = c.tasks
  /\ UNCHANGED <<trees, node_to_tree, adding, nextNode, nonTree>>

CancelBranch(branch_root_id) ==
  /\ get_tree_for_node(branch_root_id) # None
  /\ LET c == cancel_branch(branch_root_id)
     IN /\ treeObjs' = [treeObjs EXCEPT ![get_tree_for_node(branch_root_id)] = c.tree]
        /\ tasks' = c.tasks
  /\ UNCHANGED <<trees, node_to_tree, adding, nextNode, nonTree>>

\* cleanup_stale_nodes runs at startup: no task of this process is alive
CleanupStaleNodes ==
  /\ DOMAIN tasks = {}
  /\ adding = NoAdd
  /\ treeObjs' = [r \in DOMAIN treeObjs |->
                    IF r \in trees THEN cleanup_stale_nodes(treeObjs[r]) ELSE treeObjs[r]]
  /\ UNCHANGED <<trees, node_to_tree, tasks, adding, nextNode, nonTree>>

RemoveBranch(branch_root_id) ==
  LET r == get_tree_for_node(branch_root_id)
      tree == treeObjs[r]
  IN /\ r # None
     /\ IF branch_root_id = tree.root_id
        THEN LET c == cancel_tree(r)
             IN /\ treeObjs' = [treeObjs EXCEPT ![r] = c.tree]
                /\ tasks' = c.tasks
                /\ trees' = trees \ {r}
                /\ node_to_tree' = remove_tree_map(node_to_tree, c.tree)
        ELSE LET removed == get_descendants(tree, branch_root_id)
             IN /\ treeObjs' = [treeObjs EXCEPT ![r] =
                                  IF branch_root_id \in DOMAIN tree.nodes
                                  THEN tree_remove_branch(tree, branch_root_id) ELSE tree]
                /\ node_to_tree' = unregister_nodes(node_to_tree, removed)
                /\ UNCHANGED <<tasks, trees>>
     /\ UNCHANGED <<adding, nextNode, nonTree>>

TreeNext ==
  \/ CreateTree
  \/ \E p \in NodeIds : AddToTreeLookup(p)
  \/ AddToTreeAddNode
  \/ AddToTreeRegister
  \/ \E n \in NodeIds : Enqueue(n)
  \/ \E t \in TaskIds : JobSucceed(t)
  \/ \E t \in TaskIds, msg \in JobErrors : JobFail(t, msg)
  \/ \E t \in TaskIds : JobUnwind(t)
  \/ \E t \in TaskIds : DrainNext(t)
  \/ \E n \in NodeIds, msg \in JobErrors, p \in BOOLEAN : MarkNodeError(n, msg, p)
  \/ \E r \in NodeIds : CancelTree(r)
  \/ \E n \in NodeIds : CancelNode(n)
  \/ \E n \in NodeIds : CancelBranch(n)
  \/ CleanupStaleNodes
  \/ \E n \in NodeIds : RemoveBranch(n)

(***************************************************************************)
(* The global provider rate limiter (providers/rate_limit.py) and the     *)
(* error mapper that blocks it (providers/nvidia_mixins.py).               *)
(* Time advances in slots of rate_window / rate_limit seconds, the time    *)
(* the limiter's bucket takes to leak one acquisition.                     *)
(***************************************************************************)
\* NVIDIA_NIM_RATE_LIMIT as configured for the model
rate_limit == 3
\* NVIDIA_NIM_RATE_WINDOW, its default
rate_window == 60
\* the cooldown _map_error sets on a 429
DefaultCooldown == 60
\* slots of time the model lets pass
MaxTicks == 3
\* GlobalRateLimiter objects ever created (reset_instance, then get_instance)
MaxInstances == 2
\* tasks calling wait_if_blocked
MaxCallers == 2

SlotSeconds == rate_window \div rate_limit
Never == 0 - 1
CallerIds == 1..MaxCallers
\* the durations set_blocked is called with
Durations == {SlotSeconds, DefaultCooldown}

Max(a, b) == IF a >= b THEN a ELSE b

\* GlobalRateLimiter.__init__
GlobalRateLimiter == [blocked_until |-> 0, level |-> 0]

\* get_instance: the singleton, created when there is none
get_instance ==
  IF instance = None
  THEN [inst |-> Len(limiters) + 1, lims |-> Append(limiters, GlobalRateLimiter)]
  ELSE [inst |-> instance, lims |-> limiters]

\* set_blocked on limiter object l
set_blocked(l, seconds) == [l EXCEPT !.blocked_until = now + seconds]

is_blocked(l) == now < l.blocked_until

remaining_wait(l) == Max(0, l.blocked_until - now)

\* AsyncLimiter.has_capacity for one acquisition (the bucket holds rate_limit)
has_capacity(l) == l.level + 1 <= rate_limit

\* AsyncLimiter.acquire once there is capacity
acquire(l) == [l EXCEPT !.level = l.level + 1]

\* AsyncLimiter._leak over one slot: the bucket drains one acquisition
leak(l) == [l EXCEPT !.level = Max(l.level - 1, 0)]

\* the upstream exceptions _map_error is handed; a message is a sequence of words
Exceptions ==
  {[class |-> "AuthenticationError", message |-> <<"bad", "key">>, status_code |-> 401],
   [class |-> "RateLimitError", message |-> <<"Too", "Many", "Requests">>, status_code |-> 429],
   [class |-> "BadRequestError", message |-> <<"bad", "request">>, status_code |-> 400],
   [class |-> "InternalServerError", message |-> <<"Server", "Overloaded">>, status_code |-> 500],
   [class |-> "InternalServerError", message |-> <<"no", "capacity">>, status_code |-> 503],
   [class |-> "InternalServerError", message |-> <<"boom">>, status_code |-> 502],
   [class |-> "APIError", message |-> <<"gateway">>, status_code |-> 504],
   [class |-> "APIConnectionError", message |-> <<"reset">>, status_code |-> None],
   [class |-> "ValueError", message |-> <<"boom">>, status_code |-> None]}

\* the subclasses of openai.APIError among them
APIErrorClasses ==
  {"AuthenticationError", "RateLimitError", "BadRequestError", "InternalServerError",
   "APIError", "APIConnectionError"}

\* str.lower on a word
lower(w) ==
  CASE w = "Server" -> "server"
    [] w = "Overloaded" -> "overloaded"
    [] w = "Too" -> "too"
    [] w = "Many" -> "many"
    [] w = "Requests" -> "requests"
    [] w = "AT" -> "at"
    [] w = "CAPACITY" -> "capacity"
    [] OTHER -> w

\* word in message.lower()
mentions(message, word) == \E i \in 1..Len(message) : lower(message[i]) = word

\* _map_error: the exception handed back (status_code where the mapper passes one),
\* and whether the limiter is blocked first
_map_error(e) ==
  CASE e.class = "AuthenticationError" ->
         [class |-> "AuthenticationError", message |-> e.message, status_code |-> None, blocks |-> FALSE]
    [] e.class = "RateLimitError" ->
         [class |-> "RateLimitError", message |-> e.message, status_code |-> None, blocks |-> TRUE]
    [] e.class = "BadRequestError" ->
         [class |-> "InvalidRequestError", message |-> e.message, status_code |-> None, blocks |-> FALSE]
    [] e.class = "InternalServerError" ->
         IF mentions(e.message, "overloaded") \/ mentions(e.message, "capacity")
         THEN [class |-> "OverloadedError", message |-> e.message, status_code |-> None, blocks |-> FALSE]
         ELSE [class |-> "APIError", message |-> e.message, status_code |-> 500, blocks |-> FALSE]
    [] e.class \in APIErrorClasses ->
         [class |-> "APIError", message |-> e.message,
          status_code |-> IF e.status_code = None THEN 500 ELSE e.status_code,
          blocks |-> FALSE]
    [] OTHER -> [class |-> e.class, message |-> e.message, status_code |-> e.status_code, blocks |-> FALSE]

NoCall == [pc |-> "idle", self |-> None, wake |-> 0, waited |-> FALSE]

RateInit ==
  /\ now = 0
  /\ instance = None
  /\ limiters = <<>>
  /\ callers = [c \in CallerIds |-> NoCall]
  /\ returns = [k \in 1..rate_limit |-> 0]
  /\ last429 = Never

\* the subsystem is not running
RateIdle == RateInit

\* one more return of wait_if_blocked in the current slot, counted for the singleton
returned(i, singleton) ==
  IF i = singleton THEN [returns EXCEPT ![1] = @ + 1] ELSE returns

\* wait_if_blocked from its proactive step on: take a slot and return, or wait for one
Proactive(c, lims, call, singleton) ==
  IF has_capacity(lims[call.self])
  THEN /\ limiters' = [lims EXCEPT ![call.self] = acquire(@)]
       /\ callers' = [callers EXCEPT ![c] = [NoCall EXCEPT !.pc = "done",
                                                           !.waited = call.waited]]
       /\ returns' = returned(call.self, singleton)
  ELSE /\ limiters' = lims
       /\ callers' = [callers EXCEPT ![c] = [call EXCEPT !.pc = "acquire", !.wake = 0]]
       /\ UNCHANGED returns

\* a task calls get_instance().wait_if_blocked(): the reactive check, then either the
\* sleep or the proactive step
WaitIfBlocked(c) ==
  /\ callers[c].pc \in {"idle", "done"}
  /\ instance = None => Len(limiters) < MaxInstances
  /\ LET g == get_instance
         l == g.lims[g.inst]
     IN /\ instance' = g.inst
        /\ IF now < l.blocked_until
           THEN /\ callers' = [callers EXCEPT ![c] =
                     [pc |-> "sleep", self |-> g.inst, wake |-> now + (l.blocked_until - now),
                      waited |-> TRUE]]
                /\ limiters' = g.lims
                /\ UNCHANGED returns
           ELSE Proactive(c, g.lims,
                          [pc |-> "idle", self |-> g.inst, wake |-> 0, waited |-> FALSE],
                          g.inst)
  /\ UNCHANGED <<now, last429, nonRate>>

\* asyncio.sleep(wait_time) is over: on to the proactive step
WakeUp(c) ==
  /\ callers[c].pc = "sleep"
  /\ now >= callers[c].wake
  /\ Proactive(c, limiters, callers[c], instance)
  /\ UNCHANGED <<now, instance, last429, nonRate>>

\* a caller waiting in the limiter finds capacity
Acquire(c) ==
  /\ callers[c].pc = "acquire"
  /\ has_capacity(limiters[callers[c].self])
  /\ Proactive(c, limiters, callers[c], instance)
  /\ UNCHANGED <<now, instance, last429, nonRate>>

\* get_instance().set_blocked(seconds)
SetBlocked(seconds) ==
  /\ instance = None => Len(limiters) < MaxInstances
  /\ LET g == get_instance
     IN /\ instance' = g.inst
        /\ limiters' = [g.lims EXCEPT ![g.inst] = set_blocked(@, seconds)]
  /\ UNCHANGED <<now, callers, returns, last429, nonRate>>

\* the provider maps an upstream exception; a 429 blocks the limiter for the cooldown
MapError(e) ==
  /\ IF _map_error(e).blocks
     THEN /\ instance = None => Len(limiters) < MaxInstances
          /\ LET g == get_instance
             IN /\ instance' = g.inst
                /\ limiters' = [g.lims EXCEPT ![g.inst] = set_blocked(@, DefaultCooldown)]
          /\ last429' = now
     ELSE UNCHANGED <<instance, limiters, last429>>
  /\ UNCHANGED <<now, callers, returns, nonRate>>

\* reset_instance (for testing), called while no wait_if_blocked is in flight: the
\* dropped object is unreachable from then on, its fields no longer matter
ResetInstance ==
  /\ instance # None
  /\ \A c \in CallerIds : callers[c].pc \in {"idle", "done"}
  /\ instance' = None
  /\ limiters' = [limiters EXCEPT ![instance] = GlobalRateLimiter]
  /\ last429' = Never
  /\ returns' = [k \in 1..rate_limit |-> 0]
  /\ UNCHANGED <<now, callers, nonRate>>

\* one slot of time passes: every bucket leaks, the window of returns slides
Tick ==
  /\ now + SlotSeconds <= MaxTicks * SlotSeconds
  /\ now' = now + SlotSeconds
  /\ limiters' = [i \in DOMAIN limiters |-> leak(limiters[i])]
  /\ returns' = [k \in 1..rate_limit |-> IF k = 1 THEN 0 ELSE returns[k - 1]]
  /\ UNCHANGED <<instance, callers, last429, nonRate>>

RateNext ==
  \/ \E c \in CallerIds : WaitIfBlocked(c)
  \/ \E c \in CallerIds : WakeUp(c)
  \/ \E c \in CallerIds : Acquire(c)
  \/ \E s \in Durations : SetBlocked(s)
  \/ \E e \in Exceptions : MapError(e)
  \/ ResetInstance
  \/ Tick

(***************************************************************************)
(* The non-streaming response converter (providers/nvidia_mixins.py).      *)
(* A text is a sequence of pieces; "<think>" and "</think>" are pieces of  *)
(* their own.  The text of a JSON document is modelled by its syntax: an   *)
(* object text lists its members in the order written.                     *)
(***************************************************************************)
\* tool calls in one upstream message
MaxToolCalls == 2

NotConverted == [type |-> "none"]

\* JSON texts an upstream sends as function.arguments
ObjectText(members) == [form |-> "object", members |-> members]
ArgumentTexts ==
  {ObjectText(<<>>),
   ObjectText(<<<<"run_in_background", "true">>>>),
   ObjectText(<<<<"run_in_background", "false">>>>),
   ObjectText(<<<<"prompt", "\"do something\"">>, <<"run_in_background", "true">>>>),
   ObjectText(<<<<"run_in_background", "false">>, <<"run_in_background", "true">>>>),
   [form |-> "literal", token |-> "true"],
   [form |-> "malformed", text |-> "{\"run_in_background\": tr"]}

\* the Python value of a JSON scalar token
py_value(token) ==
  CASE token = "true" -> "True"
    [] token = "false" -> "False"
    [] token = "null" -> "None"
    [] token = "\"do something\"" -> "'do something'"
    [] OTHER -> token

\* the dict of an object text: a later member replaces an earlier one of the same key
RECURSIVE py_dict(_)
py_dict(members) ==
  IF members = <<>> THEN <<>>
  ELSE LET last == members[Len(members)]
           rest == py_dict(SubSeq(members, 1, Len(members) - 1))
       IN (last[1] :> py_value(last[2])) @@ rest

\* json.loads: the decoded value, or a raised error
json_loads(text) ==
  CASE text.form = "object" -> [raised |-> FALSE, type |-> "dict", value |-> py_dict(text.members)]
    [] text.form = "literal" -> [raised |-> FALSE, type |-> "scalar", value |-> py_value(text.token)]
    [] OTHER -> [raised |-> TRUE]

\* the input of a tool_use block: the decoded arguments, or the raw string
tool_input(arguments) ==
  IF json_loads(arguments).raised
  THEN [type |-> "str", value |-> arguments.text]
  ELSE [type |-> json_loads(arguments).type, value |-> json_loads(arguments).value]

ToolNames == {"Task", "Bash"}
ToolCallIds == {"call_1"}
ToolCalls ==
  [id : ToolCallIds, function : [name : ToolNames, arguments : ArgumentTexts]]

RECURSIVE SeqsUpTo(_, _)
SeqsUpTo(S, n) ==
  IF n = 0 THEN {<<>>}
  ELSE SeqsUpTo(S, n - 1) \cup
       {Append(s, x) : s \in {t \in SeqsUpTo(S, n - 1) : Len(t) = n - 1}, x \in S}

\* extract_think_content: the think sections of a text, and the text around them
RECURSIVE extract_think(_, _, _, _)
extract_think(raw, inside, think, text) ==
  IF raw = <<>> THEN <<think, text>>
  ELSE LET p == Head(raw)
       IN IF ~inside /\ p = "<think>" THEN extract_think(Tail(raw), TRUE, think, text)
          ELSE IF inside /\ p = "</think>" THEN extract_think(Tail(raw), FALSE, think, text)
          ELSE IF inside THEN extract_think(Tail(raw), inside, Append(think, p), text)
          ELSE extract_think(Tail(raw), inside, think, Append(text, p))

extract_think_content(raw) == extract_think(raw, FALSE, <<>>, <<>>)

\* map_stop_reason
map_stop_reason(finish_reason) ==
  CASE finish_reason = "stop" -> "end_turn"
    [] finish_reason = "length" -> "max_tokens"
    [] finish_reason = "tool_calls" -> "tool_use"
    [] finish_reason = "content_filter" -> "end_turn"
    [] OTHER -> "end_turn"

\* "\n".join of the text of the reasoning_details items
RECURSIVE join_text(_)
join_text(items) ==
  IF items = <<>> THEN <<>>
  ELSE IF Len(items) = 1 THEN items[1].text
  ELSE items[1].text \o <<"\n">> \o join_text(Tail(items))

\* message.get(key) is truthy
truthy(message, key) == key \in DOMAIN message /\ message[key] # <<>>

\* the reasoning convert_response extracts: reasoning_content, else reasoning_details
reasoning_of(message) ==
  IF truthy(message, "reasoning_content") THEN message.reasoning_content
  ELSE IF truthy(message, "reasoning_details") THEN join_text(message.reasoning_details)
  ELSE <<>>

\* the thinking block for the extracted reasoning
thinking_blocks(message) ==
  IF reasoning_of(message) # <<>>
  THEN <<[type |-> "thinking", thinking |-> reasoning_of(message)]>>
  ELSE <<>>

\* the blocks for message.content: a string (think tags handled) or a list of items
content_blocks(message) ==
  IF ~("content" \in DOMAIN message /\ message.content.value # <<>>) THEN <<>>
  ELSE IF message.content.type = "str"
  THEN LET split == IF reasoning_of(message) = <<>>
                    THEN extract_think_content(message.content.value)
                    ELSE <<<<>>, message.content.value>>
       IN (IF split[1] # <<>> THEN <<[type |-> "thinking", thinking |-> split[1]]>> ELSE <<>>)
          \o (IF split[2] # <<>> THEN <<[type |-> "text", text |-> split[2]]>> ELSE <<>>)
  ELSE LET is_text(item) == item.type = "text"
       IN SelectSeq(message.content.value, is_text)

\* the tool_use block convert_response appends for one upstream tool call
tool_use(tc) ==
  [type |-> "tool_use", id |-> tc.id, name |-> tc.function.name,
   input |-> tool_input(tc.function.arguments)]

tool_use_blocks(message) ==
  IF truthy(message, "tool_calls")
  THEN [i \in 1..Len(message.tool_calls) |-> tool_use(message.tool_calls[i])]
  ELSE <<>>

\* a converter that returns the blocks it extracted, however few
convert_response_bare(response, original_request) ==
  LET choice == response.choices[1]
      message == choice.message
      usage == IF "usage" \in DOMAIN response THEN response.usage
               ELSE [prompt_tokens |-> 0, completion_tokens |-> 0]
  IN [id |-> IF "id" \in DOMAIN response THEN response.id ELSE "msg_uuid4",
      type |-> "message",
      role |-> "assistant",
      model |-> original_request.model,
      content |-> thinking_blocks(message) \o content_blocks(message)
                    \o tool_use_blocks(message),
      stop_reason |-> map_stop_reason(IF "finish_reason" \in DOMAIN choice
                                      THEN choice.finish_reason ELSE "None"),
      stop_sequence |-> "None",
      usage |-> [input_tokens |-> usage.prompt_tokens,
                 output_tokens |-> usage.completion_tokens,
                 cache_creation_input_tokens |-> 0,
                 cache_read_input_tokens |-> 0]]

\* convert_response
convert_response(response, original_request) ==
  LET choice == response.choices[1]
      message == choice.message
      content == thinking_blocks(message) \o content_blocks(message)
                   \o tool_use_blocks(message)
      usage == IF "usage" \in DOMAIN response THEN response.usage
               ELSE [prompt_tokens |-> 0, completion_tokens |-> 0]
  IN [id |-> IF "id" \in DOMAIN response THEN response.id ELSE "msg_uuid4",
      type |-> "message",
      role |-> "assistant",
      model |-> original_request.model,
      content |-> IF content = <<>> THEN <<[type |-> "text", text |-> <<" ">>]>> ELSE content,
      stop_reason |-> map_stop_reason(IF "finish_reason" \in DOMAIN choice
                                      THEN choice.finish_reason ELSE "None"),
      stop_sequence |-> "None",
      usage |-> [input_tokens |-> usage.prompt_tokens,
                 output_tokens |-> usage.completion_tokens,
                 cache_creation_input_tokens |-> 0,
                 cache_read_input_tokens |-> 0]]

original_request == [model |-> "claude-3-5-sonnet"]

\* the fields an upstream message may carry, each present or not
Reasonings == {<<>>, <<"why">>}
ReasoningDetails == {<<>>, <<[text |-> <<"a">>], [text |-> <<"b">>]>>}
Contents ==
  {[type |-> "str", value |-> <<>>],
   [type |-> "str", value |-> <<"hello">>],
   [type |-> "str", value |-> <<"<think>", "plan", "</think>", "hello">>],
   [type |-> "str", value |-> <<"<think>", "plan", "</think>">>],
   [type |-> "str", value |-> <<"<think>", "</think>">>],
   [type |-> "str", value |-> <<" ">>],
   [type |-> "list", value |-> <<[type |-> "text", text |-> <<"hi">>],
                                 [type |-> "image_url", text |-> <<>>]>>]}
FinishReasons == {"stop", "tool_calls", "length"}

Messages ==
  {[reasoning_content |-> r, reasoning_details |-> d, content |-> c, tool_calls |-> t] :
     r \in Reasonings, d \in ReasoningDetails, c \in Contents,
     t \in SeqsUpTo(ToolCalls, MaxToolCalls)}

Responses ==
  {[choices |-> <<[message |-> m, finish_reason |-> f]>>] :
     m \in Messages, f \in FinishReasons}
  \cup
  {[id |-> "chatcmpl-1", choices |-> <<[message |-> m, finish_reason |-> f]>>,
    usage |-> [prompt_tokens |-> 3, completion_tokens |-> 1]] :
     m \in Messages, f \in FinishReasons}

ConvInit ==
  /\ response_json \in Responses
  /\ delivered = NotConverted

\* the subsystem is not running
ConvIdle ==
  /\ response_json = NotConverted
  /\ delivered = NotConverted

\* the provider converts the upstream response
ConvertResponse ==
  /\ delivered = NotConverted
  /\ delivered' = convert_response(response_json, original_request)
  /\ UNCHANGED <<response_json, nonConv>>

ConvNext == ConvertResponse

(***************************************************************************)
(* The think-tag parser (providers/common/think_parser.py): a streaming    *)
(* state machine over the characters of the upstream text.  Text is a      *)
(* sequence of one-character strings.                                      *)
(***************************************************************************)
\* ContentType
TEXT == "TEXT"
THINK == "THINK"

OPEN_TAG == <<"<", "t", "h", "i", "n", "k", ">">>
CLOSE_TAG == <<"<", "/", "t", "h", "i", "n", "k", ">">>

\* the parser's states
NORMAL == "NORMAL"
MAYBE_OPEN == "MAYBE_OPEN"
INSIDE == "INSIDE"
MAYBE_CLOSE == "MAYBE_CLOSE"

IsPrefix(p, s) == Len(p) <= Len(s) /\ SubSeq(s, 1, Len(p)) = p
Drop(s, k) == SubSeq(s, k + 1, Len(s))

\* ContentChunk
ContentChunk(kind, text) == [kind |-> kind, text |-> text]

\* ThinkTagParser(): NORMAL state, nothing buffered
ThinkTagParser == [state |-> NORMAL, buffer |-> <<>>]

\* text of one kind joins the chunk before it when that has the same kind;
\* nothing is emitted for empty text
emit(out, kind, text) ==
  IF text = <<>> THEN out
  ELSE IF out # <<>> /\ out[Len(out)].kind = kind
       THEN [out EXCEPT ![Len(out)].text = @ \o text]
       ELSE Append(out, ContentChunk(kind, text))

\* a character met outside a possible tag: "<" starts buffering, anything else is emitted
plain_char(st, kind, maybe, out, c) ==
  IF c = "<"
  THEN [state |-> maybe, buffer |-> <<c>>, out |-> out]
  ELSE [state |-> st, buffer |-> <<>>, out |-> emit(out, kind, <<c>>)]

\* a parser that emits the character that broke the buffer without looking at it
reprocess_dropped(st, kind, maybe, buffer, out, c) ==
  [state |-> st, buffer |-> <<>>, out |-> emit(emit(out, kind, buffer), kind, <<c>>)]

\* the buffer stopped being the beginning of the tag: it was literal text of the
\* surrounding kind, and the character that broke it is looked at again
reprocess(st, kind, maybe, buffer, out, c) ==
  plain_char(st, kind, maybe, emit(out, kind, buffer), c)

\* a character met while the buffer holds the beginning of tag; after is the state
\* behind the complete tag, st the state the tag was begun in
tag_char(st, kind, maybe, after, tag, buffer, out, c) ==
  LET b == Append(buffer, c)
  IN  IF b = tag THEN [state |-> after, buffer |-> <<>>, out |-> out]
      ELSE IF IsPrefix(b, tag) THEN [state |-> maybe, buffer |-> b, out |-> out]
      ELSE reprocess(st, kind, maybe, buffer, out, c)

\* one character of a chunk
feed_char(p, out, c) ==
  IF p.state = NORMAL THEN plain_char(NORMAL, TEXT, MAYBE_OPEN, out, c)
  ELSE IF p.state = INSIDE THEN plain_char(INSIDE, THINK, MAYBE_CLOSE, out, c)
  ELSE IF p.state = MAYBE_OPEN
       THEN tag_char(NORMAL, TEXT, MAYBE_OPEN, INSIDE, OPEN_TAG, p.buffer, out, c)
       ELSE tag_char(INSIDE, THINK, MAYBE_CLOSE, NORMAL, CLOSE_TAG, p.buffer, out, c)

\* feed(chunk): the parser after the chunk and the ContentChunks it yields
RECURSIVE feed_from(_, _, _)
feed_from(p, out, chunk) ==
  IF chunk = <<>> THEN [state |-> p.state, buffer |-> p.buffer, out |-> out]
  ELSE LET r == feed_char(p, out, Head(chunk))
       IN  feed_from([state |-> r.state, buffer |-> r.buffer], r.out, Tail(chunk))

feed(p, chunk) == feed_from(p, <<>>, chunk)

\* finalize(): what is still buffered is flushed as NORMAL text
finalize(p) ==
  [state |-> NORMAL, buffer |-> <<>>, out |-> emit(<<>>, TEXT, p.buffer)]

\* the chunks the upstream stream is cut into
Chunks ==
  { OPEN_TAG, CLOSE_TAG, <<"<", "t", "h", "i">>, <<"n", "k", ">">>,
    <<"<", "/", "t", "h">>, <<"i", "n", "k", ">">>, <<"x">>, <<"<">> }

ThinkInit ==
  /\ parser = ThinkTagParser
  /\ fed = <<>>
  /\ emitted = <<>>
  /\ finalized = FALSE

\* the subsystem is not running
ThinkIdle ==
  /\ parser = ThinkTagParser
  /\ fed = <<>>
  /\ emitted = <<>>
  /\ finalized = TRUE

\* the stream hands the next chunk of the upstream text to the parser
Feed(chunk) ==
  /\ ~finalized
  /\ Len(fed) < MaxChunks
  /\ LET r == feed(parser, chunk)
     IN  /\ parser' = [state |-> r.state, buffer |-> r.buffer]
         /\ emitted' = emitted \o r.out
  /\ fed' = Append(fed, chunk)
  /\ UNCHANGED <<finalized, nonThink>>

\* the upstream stream ended
Finalize ==
  /\ ~finalized
  /\ LET r == finalize(parser)
     IN  /\ parser' = [state |-> r.state, buffer |-> r.buffer]
         /\ emitted' = emitted \o r.out
  /\ finalized' = TRUE
  /\ UNCHANGED <<fed, nonThink>>

ThinkNext ==
  \/ \E chunk \in Chunks : Feed(chunk)
  \/ Finalize

(***************************************************************************)
(* The SSE builder (providers/common/sse_builder.py) and the extra         *)
(* reasoning handler of the OpenRouter provider that drives it.            *)
(***************************************************************************)
NoIndex == -1

\* an emitted event: its type, the block index it names and the block or delta kind
Event(type, index, kind) == [type |-> type, index |-> index, kind |-> kind]

\* SSEBuilder(): not started, no block ever opened
SSEBuilder == [started |-> FALSE, blocks |-> <<>>]

\* block i of the list has index i - 1
IndexOf(i) == i - 1

\* the index of the currently-open block, NoIndex when no block is open
current(b) ==
  LET open == {i \in 1..Len(b.blocks) : b.blocks[i].open}
  IN  IF open = {} THEN NoIndex
      ELSE IndexOf(CHOOSE i \in open : \A j \in open : j <= i)

current_kind(b) ==
  IF current(b) = NoIndex THEN "none" ELSE b.blocks[current(b) + 1].kind

\* start_message: emits message_start once
start_message(b) ==
  IF b.started THEN [b |-> b, out |-> <<>>]
  ELSE [b |-> [b EXCEPT !.started = TRUE],
        out |-> <<Event("message_start", NoIndex, "none")>>]

\* close_current: stops the open block, if there is one
close_current(b) ==
  IF current(b) = NoIndex THEN [b |-> b, out |-> <<>>]
  ELSE [b |-> [b EXCEPT !.blocks[current(b) + 1].open = FALSE],
        out |-> <<Event("content_block_stop", current(b), "none")>>]

\* a builder that opens a block and leaves the one before it open
open_block_unclosed(b, kind) ==
  [b |-> [b EXCEPT !.blocks = Append(@, [kind |-> kind, open |-> TRUE, args_buf |-> <<>>])],
   out |-> <<Event("content_block_start", IndexOf(Len(b.blocks) + 1), kind)>>]

\* closes the current block and opens a new one of the kind, at the next index
open_block(b, kind) ==
  LET c == close_current(b)
  IN  [b |-> [c.b EXCEPT !.blocks = Append(@, [kind |-> kind, open |-> TRUE, args_buf |-> <<>>])],
       out |-> c.out \o <<Event("content_block_start", IndexOf(Len(b.blocks) + 1), kind)>>]

\* ensure_text_block / ensure_thinking_block
ensure_block(b, kind) ==
  IF current_kind(b) = kind THEN [b |-> b, out |-> <<>>] ELSE open_block(b, kind)

ensure_text_block(b) == ensure_block(b, "text")
ensure_thinking_block(b) == ensure_block(b, "thinking")

\* open_tool_block(id, name)
open_tool_block(b) == open_block(b, "tool_use")

\* emit_text_delta(s) / emit_thinking_delta(s): empty strings are dropped
emit_delta(b, kind, s) ==
  IF s = "" THEN <<>> ELSE <<Event("content_block_delta", current(b), kind)>>

emit_text_delta(b, s) == emit_delta(b, "text_delta", s)
emit_thinking_delta(b, s) == emit_delta(b, "thinking_delta", s)

\* emit_tool_delta(index, chunk)
emit_tool_delta(b, index, chunk) ==
  [b |-> [b EXCEPT !.blocks[index + 1].args_buf = Append(@, chunk)],
   out |-> <<Event("content_block_delta", index, "input_json_delta")>>]

\* ping()
ping == <<Event("ping", NoIndex, "none")>>

\* finalize(stop_reason, usage)
sse_finalize(b) ==
  LET c == close_current(b)
  IN  [b |-> c.b,
       out |-> c.out \o <<Event("message_delta", NoIndex, "none"),
                          Event("message_stop", NoIndex, "none")>>]

\* OpenRouterProvider._handle_extra_reasoning: a thinking delta for every item of
\* reasoning_details that has text
RECURSIVE _handle_extra_reasoning(_, _)
_handle_extra_reasoning(reasoning_details, b) ==
  IF reasoning_details = <<>> THEN [b |-> b, out |-> <<>>]
  ELSE LET text == Head(reasoning_details)
       IN  IF text # ""
           THEN LET e == ensure_thinking_block(b)
                    rest == _handle_extra_reasoning(Tail(reasoning_details), e.b)
                IN  [b |-> rest.b,
                     out |-> e.out \o emit_thinking_delta(e.b, text) \o rest.out]
           ELSE _handle_extra_reasoning(Tail(reasoning_details), b)

\* the texts of a delta's reasoning_details
DeltaReasoningDetails == {<<>>, <<"r">>, <<"">>, <<"r", "r">>, <<"", "r">>}
\* the strings handed to emit_*_delta
DeltaTexts == {"", "s"}

SSEInit ==
  /\ sse = SSEBuilder
  /\ events = <<>>
  /\ ops = <<>>

\* the subsystem is not running
SSEIdle ==
  /\ sse = SSEBuilder
  /\ events = <<>>
  /\ ops = <<"idle">>

\* the stream is being built
Building == Len(ops) < MaxOps /\ ops # <<"idle">>

\* one builder operation: its events are sent and its name is recorded
Op(name, r) ==
  /\ sse' = r.b
  /\ events' = events \o r.out
  /\ ops' = Append(ops, name)
  /\ UNCHANGED nonSSE

StartMessage ==
  /\ Building
  /\ Op("start_message", start_message(sse))

EnsureTextBlock ==
  /\ Building
  /\ Op("ensure_text_block", ensure_text_block(sse))

EnsureThinkingBlock ==
  /\ Building
  /\ Op("ensure_thinking_block", ensure_thinking_block(sse))

OpenToolBlock ==
  /\ Building
  /\ Op("open_tool_block", open_tool_block(sse))

CloseCurrent ==
  /\ Building
  /\ Op("close_current", close_current(sse))

Ping ==
  /\ Building
  /\ Op("ping", [b |-> sse, out |-> ping])

\* the stream handlers emit a delta into the block they ensured just before
EmitTextDelta(s) ==
  /\ Building
  /\ current_kind(sse) = "text"
  /\ Op("emit_text_delta", [b |-> sse, out |-> emit_text_delta(sse, s)])

EmitThinkingDelta(s) ==
  /\ Building
  /\ current_kind(sse) = "thinking"
  /\ Op("emit_thinking_delta", [b |-> sse, out |-> emit_thinking_delta(sse, s)])

\* the arguments of the tool call whose block is open
EmitToolDelta ==
  /\ Building
  /\ current_kind(sse) = "tool_use"
  /\ Op("emit_tool_delta", emit_tool_delta(sse, current(sse), "{"))

HandleExtraReasoning(reasoning_details) ==
  /\ Building
  /\ Op("_handle_extra_reasoning", _handle_extra_reasoning(reasoning_details, sse))

SSEFinalize ==
  /\ Building
  /\ Op("finalize", sse_finalize(sse))

SSENext ==
  \/ StartMessage
  \/ EnsureTextBlock
  \/ EnsureThinkingBlock
  \/ OpenToolBlock
  \/ CloseCurrent
  \/ Ping
  \/ \E s \in DeltaTexts : EmitTextDelta(s)
  \/ \E s \in DeltaTexts : EmitThinkingDelta(s)
  \/ EmitToolDelta
  \/ \E rd \in DeltaReasoningDetails : HandleExtraReasoning(rd)
  \/ SSEFinalize

(***************************************************************************)
(* The error mapper alone: one upstream exception and what it is mapped to.*)
(***************************************************************************)
NotMapped == [class |-> "NotMapped"]

\* what the upstream errors say
ErrorMessages ==
  {<<"boom">>, <<"bad", "key">>, <<"overloaded">>, <<"Server", "Overloaded">>,
   <<"no", "capacity">>, <<"AT", "CAPACITY">>}

\* the status codes the openai client raises each class for
StatusCodes(class) ==
  CASE class = "AuthenticationError" -> {401}
    [] class = "RateLimitError" -> {429}
    [] class = "BadRequestError" -> {400}
    [] class = "InternalServerError" -> {500, 502, 503}
    [] OTHER -> {None}

UpstreamExceptions ==
  {e \in [class : APIErrorClasses \cup {"ValueError"}, message : ErrorMessages,
          status_code : {400, 401, 429, 500, 502, 503, None}] :
     e.status_code \in StatusCodes(e.class)}

ErrInit ==
  /\ raised \in UpstreamExceptions
  /\ mapped = NotMapped

\* the subsystem is not running
ErrIdle ==
  /\ raised = NotMapped
  /\ mapped = NotMapped

\* the provider maps the exception of a failed upstream call
MapUpstreamError ==
  /\ mapped = NotMapped
  /\ mapped' = [class |-> _map_error(raised).class,
                message |-> _map_error(raised).message,
                status_code |-> _map_error(raised).status_code]
  /\ UNCHANGED <<raised, nonErr>>

ErrNext == MapUpstreamError

(***************************************************************************)
(* The request builder (providers/nvidia_mixins.py, RequestBuilderMixin).  *)
(* A dict is a function from its keys; a value that matters only by        *)
(* identity is a string, max_tokens is a number.                           *)
(***************************************************************************)
NotBuilt == [built |-> FALSE]
EmptyDict == [k \in {} |-> "None"]

\* dict.setdefault(key, value)
setdefault(d, key, value) == IF key \in DOMAIN d THEN d ELSE d @@ (key :> value)

\* d[key] = value when the condition holds
set_if(d, cond, key, value) == IF cond THEN (key :> value) @@ d ELSE d

\* request_data.thinking and getattr(request_data.thinking, "enabled", True)
thinking_enabled(request) == request.thinking \in {"enabled", "no_enabled_attr"}

\* the extra_body of the upstream body: the caller's, then the thinking hints
extra_params_of(request) ==
  IF thinking_enabled(request)
  THEN setdefault(setdefault(setdefault(request.extra_body,
         "thinking", "type_enabled"),
         "reasoning_split", "True"),
         "chat_template_kwargs", "thinking_reasoning_split_no_clear")
  ELSE request.extra_body

\* the NIM defaults applied one key after the other
RECURSIVE apply_defaults(_, _, _, _)
apply_defaults(b, extra_params, params, keys) ==
  IF keys = {} THEN b
  ELSE LET key == CHOOSE k \in keys : TRUE
       IN  apply_defaults(set_if(b, key \notin DOMAIN b /\ key \notin DOMAIN extra_params,
                                 key, params[key]),
                          extra_params, params, keys \ {key})

\* _build_request_body
_build_request_body(request, params) ==
  LET extra_params == extra_params_of(request)
      b0 == ("model" :> request.model) @@ ("messages" :> "converted")
              @@ ("max_tokens" :> request.max_tokens)
      b1 == set_if(b0, request.temperature # "None", "temperature", request.temperature)
      b2 == set_if(b1, extra_params # EmptyDict, "extra_body", extra_params)
  IN  apply_defaults(b2, extra_params, params, DOMAIN params)

\* the dicts over some of the keys, each key with one of its values
RECURSIVE DictsOf(_, _)
DictsOf(keys, values) ==
  IF keys = {} THEN {EmptyDict}
  ELSE LET key == CHOOSE k \in keys : TRUE
           rest == DictsOf(keys \ {key}, values)
       IN  rest \cup {(key :> v) @@ d : v \in values[key], d \in rest}

ExtraKeys == {"thinking", "reasoning_split", "chat_template_kwargs", "top_k"}
DefaultKeys == {"max_tokens", "top_k", "seed", "temperature"}

\* the provider's configured maximum of max_tokens
NimMaxTokens == 4

DefaultValues(k) ==
  CASE k = "max_tokens" -> {NimMaxTokens}
    [] k = "top_k" -> {"-1", "10"}
    [] k = "seed" -> {"None", "7"}
    [] OTHER -> {"1.0"}

BuildRequests ==
  [model : {"test"}, max_tokens : {2, 4, 6}, temperature : {"None", "0.5"},
   thinking : {"None", "enabled", "disabled", "no_enabled_attr"},
   extra_body : DictsOf(ExtraKeys, [k \in ExtraKeys |-> {"caller"}])]

NimParams == DictsOf(DefaultKeys, [k \in DefaultKeys |-> DefaultValues(k)])

BuildInit ==
  /\ request_data \in BuildRequests
  /\ nim_params \in NimParams
  /\ body = NotBuilt

\* the subsystem is not running
BuildIdle ==
  /\ request_data = NotBuilt
  /\ nim_params = EmptyDict
  /\ body = NotBuilt

\* the provider builds the upstream body of the request
BuildRequestBody ==
  /\ body = NotBuilt
  /\ body' = _build_request_body(request_data, nim_params)
  /\ UNCHANGED <<request_data, nim_params, nonBuild>>

BuildNext == BuildRequestBody

(***************************************************************************)
(* Token counting (api/request_utils.py, get_token_count).  A text is      *)
(* given by the number of tokens ENCODER.encode returns for it, an image   *)
(* by the length of its base64 data.                                       *)
(***************************************************************************)
NotCounted == -1
NoData == -1

\* the tokens get_token_count adds for one content block
block_tokens(block) ==
  CASE block.type = "text" -> block.text
    [] block.type = "thinking" -> block.thinking
    [] block.type = "tool_use" -> block.name + block.input + 10
    [] block.type = "tool_result" -> block.content + 5
    [] OTHER -> 0

RECURSIVE blocks_tokens(_)
blocks_tokens(blocks) ==
  IF blocks = <<>> THEN 0 ELSE block_tokens(Head(blocks)) + blocks_tokens(Tail(blocks))

\* the tokens of the messages' contents: a string, or a list of blocks
RECURSIVE messages_tokens(_)
messages_tokens(messages) ==
  IF messages = <<>> THEN 0
  ELSE (IF Head(messages).content.type = "str" THEN Head(messages).content.text
        ELSE blocks_tokens(Head(messages).content.blocks))
       + messages_tokens(Tail(messages))

\* the tokens of name + description + json.dumps(input_schema) of the tools
RECURSIVE tools_tokens(_)
tools_tokens(tools) ==
  IF tools = <<>> THEN 0 ELSE Head(tools).tool_str + tools_tokens(Tail(tools))

\* get_token_count
get_token_count(messages, system, tools) ==
  Max(1, (IF system.text # 0 THEN system.text ELSE 0)
         + messages_tokens(messages)
         + tools_tokens(tools)
         + Len(messages) * 3
         + Len(tools) * 5)

\* the content blocks of the requests
CountBlocks ==
  {[type |-> "text", text |-> 2],
   [type |-> "thinking", thinking |-> 1],
   [type |-> "tool_use", name |-> 1, input |-> 2],
   [type |-> "tool_result", content |-> 2],
   [type |-> "image", data |-> NoData],
   [type |-> "image", data |-> 3000],
   [type |-> "image", data |-> 300000]}

CountContents ==
  {[type |-> "str", text |-> n] : n \in {0, 2}}
  \cup {[type |-> "list", blocks |-> bs] : bs \in SeqsUpTo(CountBlocks, MaxBlocks)}

CountMessages == {[content |-> c] : c \in CountContents}

\* system: absent or empty (no text), or a prompt of three tokens
CountSystems == {[present |-> FALSE, text |-> 0], [present |-> TRUE, text |-> 0],
                 [present |-> TRUE, text |-> 3]}

CountRequests ==
  [messages : SeqsUpTo(CountMessages, MaxMessages),
   system : CountSystems,
   tools : SeqsUpTo({[tool_str |-> 4]}, 1)]

CountInit ==
  /\ count_request \in CountRequests
  /\ input_tokens = NotCounted

\* the subsystem is not running
CountIdle ==
  /\ count_request = NotCounted
  /\ input_tokens = NotCounted

\* the count_tokens endpoint counts the request
CountTokens ==
  /\ input_tokens = NotCounted
  /\ input_tokens' = get_token_count(count_request.messages, count_request.system,
                                     count_request.tools)
  /\ UNCHANGED <<count_request, nonCount>>

CountNext == CountTokens

(***************************************************************************)
(* The provider cache (api/dependencies.py): ProviderFactory.get and       *)
(* cleanup_provider.  A provider instance is a number; a factory is given  *)
(* by whether its settings hold the API key.                               *)
(***************************************************************************)
ProviderTypes == {"nvidia_nim", "lmstudio", "unknown"}
\* settings.nvidia_nim_api_key is set or not
FactorySettings == {"key", "no_key"}

NoGet == [type |-> "none", provider |-> None, raised |-> "none", built |-> FALSE]
NoCleanup == [pc |-> "idle", todo |-> <<>>, size |-> 0]

CachedTypes(cache) == {cache[i].type : i \in 1..Len(cache)}
CachedProviders(cache) == {cache[i].provider : i \in 1..Len(cache)}
Cached(cache, type) == (CHOOSE i \in 1..Len(cache) : cache[i].type = type)

\* _build_provider: the exception it raises, or "none" when it builds
_build_provider(provider_type, settings) ==
  IF provider_type = "nvidia_nim"
  THEN (IF settings = "no_key" THEN "HTTPException_503" ELSE "none")
  ELSE IF provider_type = "lmstudio" THEN "none"
  ELSE "ValueError"

\* ProviderFactory.get: the cache after the call and what the call gave
factory_get(cache, target_type, settings, fresh) ==
  IF target_type \in CachedTypes(cache)
  THEN [cache |-> cache,
        ret |-> [type |-> target_type, provider |-> cache[Cached(cache, target_type)].provider,
                 raised |-> "none", built |-> FALSE]]
  ELSE IF _build_provider(target_type, settings) # "none"
  THEN [cache |-> cache,
        ret |-> [type |-> target_type, provider |-> None,
                 raised |-> _build_provider(target_type, settings), built |-> FALSE]]
  ELSE [cache |-> Append(cache, [type |-> target_type, provider |-> fresh]),
        ret |-> [type |-> target_type, provider |-> fresh,
                 raised |-> "none", built |-> TRUE]]

ProvInit ==
  /\ provider_cache = <<>>
  /\ closes = <<>>
  /\ cleanup = NoCleanup
  /\ last_get = NoGet
  /\ got = [t \in ProviderTypes |-> {}]

\* the subsystem is not running
ProvIdle ==
  /\ provider_cache = <<>>
  /\ closes = <<>>
  /\ cleanup = [pc |-> "off", todo |-> <<>>, size |-> 0]
  /\ last_get = NoGet
  /\ got = [t \in ProviderTypes |-> {}]

\* a request handler resolves its provider; the call does not await
Get(settings, provider_type) ==
  /\ cleanup.pc # "off"
  /\ provider_type \notin CachedTypes(provider_cache) => Len(closes) < MaxProviders
  /\ LET g == factory_get(provider_cache, provider_type, settings, Len(closes) + 1)
     IN  /\ provider_cache' = g.cache
         /\ last_get' = g.ret
         /\ closes' = IF g.ret.built THEN Append(closes, 0) ELSE closes
         /\ got' = IF g.ret.provider # None
                   THEN [got EXCEPT ![provider_type] = @ \cup {g.ret.provider}]
                   ELSE got
  /\ UNCHANGED <<cleanup, nonProv>>

\* the loop of cleanup_provider takes the next provider of the iteration and awaits
\* its client's aclose
close_next(todo, size) ==
  [cleanup |-> [pc |-> "closing", todo |-> Tail(todo), size |-> size],
   closes |-> [closes EXCEPT ![Head(todo).provider] = @ + 1]]

\* cleanup_provider is called: with an empty cache it clears and returns at once
CleanupStart ==
  /\ cleanup.pc = "idle"
  /\ IF provider_cache = <<>>
     THEN /\ got' = [t \in ProviderTypes |-> {}]
          /\ UNCHANGED <<closes, cleanup>>
     ELSE /\ cleanup' = close_next(provider_cache, Len(provider_cache)).cleanup
          /\ closes' = close_next(provider_cache, Len(provider_cache)).closes
          /\ UNCHANGED got
  /\ UNCHANGED <<provider_cache, last_get, nonProv>>

\* aclose is done and the iteration goes on with a cache of the size it started with
CleanupNext ==
  /\ cleanup.pc = "closing"
  /\ Len(provider_cache) = cleanup.size
  /\ cleanup.todo # <<>>
  /\ cleanup' = close_next(cleanup.todo, cleanup.size).cleanup
  /\ closes' = close_next(cleanup.todo, cleanup.size).closes
  /\ UNCHANGED <<provider_cache, last_get, got, nonProv>>

\* the iteration is over: the cache is cleared and cleanup_provider returns
CleanupReturn ==
  /\ cleanup.pc = "closing"
  /\ Len(provider_cache) = cleanup.size
  /\ cleanup.todo = <<>>
  /\ provider_cache' = <<>>
  /\ cleanup' = NoCleanup
  /\ got' = [t \in ProviderTypes |-> {}]
  /\ UNCHANGED <<closes, last_get, nonProv>>

\* a get added an entry during an aclose: the iteration raises RuntimeError
\* (dictionary changed size during iteration) and the cache stays as it is
CleanupRaise ==
  /\ cleanup.pc = "closing"
  /\ Len(provider_cache) # cleanup.size
  /\ cleanup' = NoCleanup
  /\ UNCHANGED <<provider_cache, closes, last_get, got, nonProv>>

ProvNext ==
  \/ \E s \in FactorySettings, t \in ProviderTypes : Get(s, t)
  \/ CleanupStart
  \/ CleanupNext
  \/ CleanupReturn
  \/ CleanupRaise

(***************************************************************************)
(* The specifications.                                                     *)
(***************************************************************************)
vars == <<treeVars, rateVars, convVars, thinkVars, sseVars, errVars, buildVars, countVars, provVars>>

Init == TreeInit /\ RateIdle /\ ConvIdle /\ ThinkIdle /\ SSEIdle /\ ErrIdle /\ BuildIdle /\ CountIdle /\ ProvIdle

Next == TreeNext

\* the tree queue manager
Spec == Init /\ [][Next]_vars

\* a started job terminates: it returns, raises, or surfaces its cancellation
JobEnds(t) ==
  \/ JobSucceed(t)
  \/ \E msg \in JobErrors : JobFail(t, msg)
  \/ JobUnwind(t)

\* the event loop runs every ready task: jobs terminate and drain loops go on
SpecLive ==
  /\ Init
  /\ [][Next]_vars
  /\ \A t \in TaskIds : WF_vars(JobEnds(t)) /\ WF_vars(DrainNext(t))

\* register_node called from outside: the handler maps the id of a status message
\* (a fresh platform id, never a node of the tree) to the tree of root_id
RegisterNode(root_id) ==
  /\ nextNode <= MaxNodes
  /\ get_tree(root_id) # None
  /\ node_to_tree' = register_node(node_to_tree, nextNode, root_id)
  /\ nextNode' = nextNode + 1
  /\ UNCHANGED <<treeObjs, trees, tasks, adding, nonTree>>

\* the manager with the external mapping of status messages
NextIndex ==
  \/ Next
  \/ \E r \in NodeIds : RegisterNode(r)

SpecIndex == Init /\ [][NextIndex]_vars

\* the handler and the drain loops alone: nothing is cancelled or removed and
\* only jobs mark nodes
NextUncancelled ==
  \/ CreateTree
  \/ \E p \in NodeIds : AddToTreeLookup(p)
  \/ AddToTreeAddNode
  \/ AddToTreeRegister
  \/ \E n \in NodeIds : Enqueue(n)
  \/ \E t \in TaskIds : JobSucceed(t)
  \/ \E t \in TaskIds, msg \in JobErrors : JobFail(t, msg)
  \/ \E t \in TaskIds : DrainNext(t)

SpecUncancelled ==
  /\ Init
  /\ [][NextUncancelled]_vars
  /\ \A t \in TaskIds : WF_vars(JobEnds(t)) /\ WF_vars(DrainNext(t))

InitRate == RateInit /\ TreeInit /\ ConvIdle /\ ThinkIdle /\ SSEIdle /\ ErrIdle /\ BuildIdle /\ CountIdle /\ ProvIdle

NextRate == RateNext

\* the rate limiter
SpecRate == InitRate /\ [][NextRate]_vars

InitConv == ConvInit /\ TreeInit /\ RateIdle /\ ThinkIdle /\ SSEIdle /\ ErrIdle /\ BuildIdle /\ CountIdle /\ ProvIdle

NextConv == ConvNext

\* the response converter
SpecConv == InitConv /\ [][NextConv]_vars

InitThink == ThinkInit /\ TreeInit /\ RateIdle /\ ConvIdle /\ SSEIdle /\ ErrIdle /\ BuildIdle /\ CountIdle /\ ProvIdle

NextThink == ThinkNext

\* the think-tag parser
SpecThink == InitThink /\ [][NextThink]_vars

InitSSE == SSEInit /\ TreeInit /\ RateIdle /\ ConvIdle /\ ThinkIdle /\ ErrIdle /\ BuildIdle /\ CountIdle /\ ProvIdle

NextSSE == SSENext

\* the SSE builder
SpecSSE == InitSSE /\ [][NextSSE]_vars

InitErr == ErrInit /\ TreeInit /\ RateIdle /\ ConvIdle /\ ThinkIdle /\ SSEIdle /\ BuildIdle /\ CountIdle /\ ProvIdle

NextErr == ErrNext

\* the error mapper
SpecErr == InitErr /\ [][NextErr]_vars

InitBuild == BuildInit /\ TreeInit /\ RateIdle /\ ConvIdle /\ ThinkIdle /\ SSEIdle /\ ErrIdle /\ CountIdle /\ ProvIdle

NextBuild == BuildNext

\* the request builder
SpecBuild == InitBuild /\ [][NextBuild]_vars

InitCount == CountInit /\ TreeInit /\ RateIdle /\ ConvIdle /\ ThinkIdle /\ SSEIdle /\ ErrIdle /\ BuildIdle /\ ProvIdle

NextCount == CountNext

\* token counting
SpecCount == InitCount /\ [][NextCount]_vars

InitProv == ProvInit /\ TreeInit /\ RateIdle /\ ConvIdle /\ ThinkIdle /\ SSEIdle /\ ErrIdle /\ BuildIdle /\ CountIdle

NextProv == ProvNext

\* the provider cache
SpecProv == InitProv /\ [][NextProv]_vars

(***************************************************************************)
(* Properties of the tree queue manager.                                   *)
(***************************************************************************)
Active(tree) ==
  {n \in DOMAIN tree.nodes : tree.nodes[n].state \in {PENDING, IN_PROGRESS}}

InProgress(tree) ==
  {n \in DOMAIN tree.nodes : tree.nodes[n].state = IN_PROGRESS}

\* the tasks of tree r whose job has started and has not terminated
Unfinished(r) ==
  {t \in DOMAIN tasks : tasks[t].tree = r /\ tasks[t].status \in {"running", "cancelled"}}

\* the tasks of tree r whose job is running (cancellation not requested)
Running(r) ==
  {t \in DOMAIN tasks : tasks[t].tree = r /\ tasks[t].status = "running"}

\* C1: when cancel_tree(r) returns, no node of tree r is PENDING or IN_PROGRESS.
C1_CancelTreeLeavesNoActive ==
  [][\A r \in NodeIds : CancelTree(r) => Active(treeObjs'[r]) = {}]_vars

\* C1 witness: a tree on which cancel_tree has cancelled the running node
\* (ERROR "Cancelled by user", completed_at unset) and cleaned a stale one.
C1_Witness ==
  \E r \in trees :
    /\ Active(treeObjs[r]) = {}
    /\ ~treeObjs[r].is_processing
    /\ \E n \in DOMAIN treeObjs[r].nodes :
         /\ treeObjs[r].nodes[n].error_message = CancelledByUser
         /\ ~treeObjs[r].nodes[n].completed_at
    /\ \E n \in DOMAIN treeObjs[r].nodes :
         treeObjs[r].nodes[n].error_message = StaleCleanedUp

\* C2: in every reachable state each tree has at most one IN_PROGRESS node
\* and at most one running job.
C2_AtMostOneInProgress ==
  \A r \in trees :
    /\ Cardinality(InProgress(treeObjs[r])) <= 1
    /\ Cardinality(Running(r)) <= 1

\* a step in which the job of node b of tree r starts
StartsJob(r, b) ==
  \E t \in DOMAIN tasks' :
    /\ tasks'[t].tree = r /\ tasks'[t].node = b /\ tasks'[t].status = "running"
    /\ ~(t \in DOMAIN tasks /\ tasks[t].node = b /\ tasks[t].status = "running")

\* C3: jobs of one tree start in enqueue order, one after the other: when the job
\* of b starts, no job of the tree started earlier is still unfinished, and no
\* node queued before b is still waiting (b is the head of the FIFO queue, or
\* the queue is empty and b starts at once).
C3_StartInEnqueueOrder ==
  [][\A r \in DOMAIN treeObjs : \A b \in NodeIds :
       StartsJob(r, b) =>
         /\ Unfinished(r) = {}
         /\ (treeObjs[r].queue = <<>> \/ Head(treeObjs[r].queue) = b)]_vars

AllowedTransitions ==
  {<<PENDING, IN_PROGRESS>>, <<IN_PROGRESS, COMPLETED>>,
   <<IN_PROGRESS, ERROR>>, <<PENDING, ERROR>>}

\* C4: every change of a node's state is one of PENDING -> IN_PROGRESS,
\* IN_PROGRESS -> COMPLETED, IN_PROGRESS -> ERROR, PENDING -> ERROR; a node
\* that is COMPLETED or ERROR never changes state.
C4_MonotoneTransitions ==
  [][\A r \in DOMAIN treeObjs :
       \A n \in DOMAIN treeObjs[r].nodes \cap DOMAIN treeObjs'[r].nodes :
         treeObjs[r].nodes[n].state # treeObjs'[r].nodes[n].state =>
           <<treeObjs[r].nodes[n].state, treeObjs'[r].nodes[n].state>>
             \in AllowedTransitions]_vars

\* C9 as stated: in every reachable state, also between the steps of
\* add_to_tree, every node of a tree of the repository is mapped to its root.
C9_EveryNodeIndexed ==
  \A r \in trees : \A n \in DOMAIN treeObjs[r].nodes : node_to_tree[n] = r

\* C9 amended: every node of a tree of the repository is mapped to its root,
\* except the node an add_to_tree call has added and not yet registered.
C9_EveryNodeIndexedOnceRegistered ==
  \A r \in trees : \A n \in DOMAIN treeObjs[r].nodes :
    (adding.pc = "register" /\ adding.node = n) \/ node_to_tree[n] = r

\* C9 witness: no add_to_tree in flight, two trees, one of them with a reply
\* that add_to_tree has registered under the tree's root.
C9_Witness ==
  /\ adding = NoAdd
  /\ Cardinality(trees) = 2
  /\ \E r \in trees : \E n \in DOMAIN treeObjs[r].nodes :
       /\ treeObjs[r].nodes[n].parent_id # None
       /\ node_to_tree[n] = r
       /\ r # n

(***************************************************************************)
(* Properties of the rate limiter.                                         *)
(***************************************************************************)
\* C5: blocked_until of the limiter never decreases: whatever set_blocked calls
\* are made, with whatever durations, a call leaves max(now + s, previous).
C5_BlockedUntilNeverDecreases ==
  [][(instance # None /\ instance' = instance) =>
       limiters'[instance].blocked_until >= limiters[instance].blocked_until]_vars

\* C6: no wait_if_blocked call that had to wait returns while its limiter is
\* reactively blocked (now < blocked_until at the moment of return).
C6_NoReturnWhileBlocked ==
  [][\A c \in CallerIds :
       (callers[c].pc \in {"sleep", "acquire"} /\ callers'[c].pc = "done") =>
         ~is_blocked(limiters[callers[c].self])]_vars

\* C7: from the moment _map_error has mapped a 429 and until the 60 s cooldown
\* has elapsed, with no reset_instance in between, the limiter get_instance
\* hands out reports is_blocked().
C7_BlockObservedForCooldown ==
  (last429 # Never /\ now < last429 + DefaultCooldown) =>
    (instance # None /\ is_blocked(limiters[instance]))

RECURSIVE SumSeq(_)
SumSeq(s) == IF s = <<>> THEN 0 ELSE Head(s) + SumSeq(Tail(s))

\* C8: in every interval of length rate_window at most rate_limit calls of
\* wait_if_blocked return.
C8_AtMostRateLimitPerWindow == SumSeq(returns) <= rate_limit

(***************************************************************************)
(* Properties of the response converter.                                   *)
(***************************************************************************)
\* the tool_use blocks of a converted response, in order
ToolUses(response) ==
  LET is_tool_use(block) == block.type = "tool_use"
  IN SelectSeq(response.content, is_tool_use)

\* the upstream tool call asks a Task to run in the background
AsksBackgroundTask(tc) ==
  /\ tc.function.name = "Task"
  /\ ~json_loads(tc.function.arguments).raised
  /\ json_loads(tc.function.arguments).type = "dict"
  /\ "run_in_background" \in DOMAIN json_loads(tc.function.arguments).value
  /\ json_loads(tc.function.arguments).value["run_in_background"] = "True"

\* C10: for every upstream tool call named Task whose arguments decode to an
\* object with run_in_background true, the tool_use block convert_response
\* delivers carries run_in_background false and every other field unchanged.
C10_TaskNeverInBackground ==
  delivered # NotConverted =>
    \A i \in 1..Len(response_json.choices[1].message.tool_calls) :
      LET tc == response_json.choices[1].message.tool_calls[i]
      IN AsksBackgroundTask(tc) =>
           ToolUses(delivered)[i].input =
             [type |-> "dict",
              value |-> [json_loads(tc.function.arguments).value
                           EXCEPT !["run_in_background"] = "False"]]

(***************************************************************************)
(* Properties of the manager's operations, one by one.                     *)
(***************************************************************************)
\* the nodes of tree r the manager can reach through the index
Reachable(r) == {n \in DOMAIN treeObjs[r].nodes : get_tree_for_node(n) = r}

\* cancel_node on a COMPLETED or ERROR node returns [] and changes nothing
CancelNodeNoopOnTerminal ==
  \A r \in trees : \A n \in Reachable(r) :
    treeObjs[r].nodes[n].state \in Terminal =>
      cancel_node(n) = [tree |-> treeObjs[r], tasks |-> tasks, ret |-> <<>>]

\* a further cancel_branch(b) returns [] and changes nothing
CancelBranchAgainNoop(b) ==
  cancel_branch(b) =
    [tree |-> treeObjs[get_tree_for_node(b)], tasks |-> tasks, ret |-> <<>>]

\* a further cancel_tree(r) returns [] and changes nothing
CancelTreeAgainNoop(r) ==
  cancel_tree(r) = [tree |-> treeObjs[r], tasks |-> tasks, ret |-> <<>>]

\* a step that changes some node or task and leaves the index as it was
TouchesOnlyTrees ==
  /\ UNCHANGED <<trees, node_to_tree, adding, nextNode>>
  /\ <<treeObjs, tasks>>' # <<treeObjs, tasks>>

\* C11: cancellation is idempotent: in every state, cancel_node on a COMPLETED or
\* ERROR node returns [] and changes nothing; right after a cancel_branch or a
\* cancel_tree, the same call again returns [] and changes no node's state or
\* error_message (indeed nothing at all).
C11_CancelIdempotent ==
  /\ []CancelNodeNoopOnTerminal
  /\ [][TouchesOnlyTrees =>
          /\ \A b \in NodeIds : CancelBranch(b) => CancelBranchAgainNoop(b)'
          /\ \A r \in NodeIds : CancelTree(r) => CancelTreeAgainNoop(r)']_vars

\* C11 witness: a tree holding a node cancel_node or cancel_branch has cancelled
\* (completed_at set), a COMPLETED node, and a live task that has been cancelled.
C11_Witness ==
  \E r \in trees :
    /\ \E n \in Reachable(r) :
         /\ treeObjs[r].nodes[n].state = ERROR
         /\ treeObjs[r].nodes[n].error_message = CancelledByUser
         /\ treeObjs[r].nodes[n].completed_at
    /\ \E n \in Reachable(r) : treeObjs[r].nodes[n].state = COMPLETED
    /\ \E t \in DOMAIN tasks : tasks[t].tree = r /\ tasks[t].status = "cancelled"

\* the tasks that are executing the job of node n
JobOf(n) ==
  {t \in DOMAIN tasks : tasks[t].node = n /\ tasks[t].status \in {"running", "cancelled"}}

\* what cancel_node(n) promises for a node that was PENDING or IN_PROGRESS
CancelNodePost(n) ==
  LET r == get_tree_for_node(n)
      tree == treeObjs[r]
  IN tree.nodes[n].state \in {PENDING, IN_PROGRESS} =>
       /\ cancel_node(n).ret = <<n>>
       /\ treeObjs'[r].nodes[n].state = ERROR
       /\ treeObjs'[r].nodes[n].error_message = CancelledByUser
       /\ treeObjs'[r].nodes[n].completed_at
       /\ n \notin Range(treeObjs'[r].queue)
       /\ IF is_current_node(tree, n)
          THEN \A t \in JobOf(n) : tasks'[t].status = "cancelled"
          ELSE tasks' = tasks

\* C12: cancel_node(n) on a PENDING or IN_PROGRESS node returns exactly [n] and
\* leaves n ERROR "Cancelled by user" with completed_at set and absent from the
\* queue; the task running n's job is cancelled if n was the current node, and no
\* task is touched otherwise.
C12_CancelNodeCancels ==
  [][TouchesOnlyTrees => \A n \in NodeIds : CancelNode(n) => CancelNodePost(n)]_vars

\* the order in which the nodes of set S stand in queue q
QueueOrder(q, S) == LET In(n) == n \in S IN SelectSeq(q, In)

\* what cancel_branch(b) promises
CancelBranchPost(b) ==
  LET r == get_tree_for_node(b)
      tree == treeObjs[r]
      after == treeObjs'[r]
      sub == Range(get_descendants(tree, b))
      was == {n \in sub : tree.nodes[n].state \in {PENDING, IN_PROGRESS}}
      outside == DOMAIN tree.nodes \ sub
  IN /\ \A n \in sub : after.nodes[n].state \in Terminal
     /\ \A n \in was : /\ after.nodes[n].state = ERROR
                       /\ after.nodes[n].error_message = CancelledByUser
                       /\ n \notin Range(after.queue)
     /\ \A n \in sub \ was : after.nodes[n] = tree.nodes[n]
     /\ Range(cancel_branch(b).ret) = was
     /\ Len(cancel_branch(b).ret) = Cardinality(was)
     /\ \A t \in DOMAIN tasks :
          tasks[t].tree = r /\ tasks[t].status = "running" =>
            (tasks'[t].status = "cancelled" <=> tree.current_node_id \in sub)
     /\ \A n \in outside : after.nodes[n].state = tree.nodes[n].state
     /\ QueueOrder(after.queue, outside) = QueueOrder(tree.queue, outside)

\* C13: cancel_branch(b) leaves every node of b's subtree COMPLETED or ERROR;
\* exactly the nodes that were PENDING or IN_PROGRESS are now ERROR "Cancelled by
\* user", absent from the queue and returned; a running task is cancelled iff the
\* current node lies in the subtree; nodes outside keep state and queue order.
C13_CancelBranchCancelsSubtree ==
  [][TouchesOnlyTrees => \A b \in NodeIds : CancelBranch(b) => CancelBranchPost(b)]_vars

\* b is n or an ancestor of n along parent_id
RECURSIVE UnderBranch(_, _, _)
UnderBranch(tree, b, n) ==
  IF n = b THEN TRUE
  ELSE IF n \notin DOMAIN tree.nodes THEN FALSE
  ELSE UnderBranch(tree, b, tree.nodes[n].parent_id)

\* every node of the list stands after its parent, when the parent is in the list
ParentsFirst(tree, ns) ==
  \A i, j \in 1..Len(ns) : tree.nodes[ns[j]].parent_id = ns[i] => i < j

\* what remove_branch(b) promises when b is not the root of its tree
RemoveBranchPost(b) ==
  LET r == get_tree_for_node(b)
      tree == treeObjs[r]
      after == treeObjs'[r]
      removed == get_descendants(tree, b)
      gone == Range(removed)
      p == tree.nodes[b].parent_id
  IN b # tree.root_id /\ b \in DOMAIN tree.nodes =>
       /\ gone = {n \in DOMAIN tree.nodes : UnderBranch(tree, b, n)}
       /\ Len(removed) = Cardinality(gone)
       /\ ParentsFirst(tree, removed)
       /\ \A n \in gone : node_to_tree'[n] = None /\ n \notin DOMAIN after.nodes
       /\ p \in DOMAIN after.nodes => b \notin Range(after.nodes[p].children_ids)
       /\ DOMAIN after.nodes = DOMAIN tree.nodes \ gone
       /\ \A n \in DOMAIN after.nodes :
            IF n = p
            THEN after.nodes[n] = [tree.nodes[n] EXCEPT !.children_ids = RemoveAll(@, b)]
            ELSE after.nodes[n] = tree.nodes[n]
       /\ \A n \in NodeIds \ gone : node_to_tree'[n] = node_to_tree[n]
       /\ \A o \in DOMAIN treeObjs \ {r} : treeObjs'[o] = treeObjs[o]
       /\ UNCHANGED <<trees, tasks>>

\* C14: remove_branch(b) on a non-root node removes the subtree of b, listed with
\* every node before its descendants: no removed id is a key of node_to_tree or a
\* node of the tree, b is not among its parent's children, and every other node,
\* state and mapping is unchanged.
C14_RemoveBranchDetachesSubtree ==
  [][UNCHANGED <<adding, nextNode, tasks>> /\ treeObjs' # treeObjs =>
       \A b \in NodeIds : RemoveBranch(b) => RemoveBranchPost(b)]_vars

\* C14 witness: the only tree ever created has lost the branch of node a (no
\* add_to_tree is in flight, so a was added and then removed) and has kept its
\* root and a node c whose job is running
C14_Witness ==
  \E r \in trees : \E a, c \in NodeIds \ {r} :
    /\ a # c
    /\ DOMAIN treeObjs = {r}
    /\ adding = NoAdd
    /\ nextNode > a /\ nextNode > c
    /\ DOMAIN treeObjs[r].nodes = {r, c}
    /\ a \notin Range(treeObjs[r].nodes[r].children_ids)
    /\ node_to_tree[a] = None
    /\ node_to_tree[c] = r
    /\ treeObjs[r].nodes[c].state = IN_PROGRESS

\* what remove_branch(root_id) promises for the root of a tree
RemoveTreePost(root_id) ==
  LET tree == treeObjs[root_id]
      after == treeObjs'[root_id]
  IN get_tree_for_node(root_id) = root_id =>
       /\ \A t \in DOMAIN tasks :
            tasks[t].tree = root_id /\ tasks[t].status = "running" =>
              tasks'[t].status = "cancelled"
       /\ \A n \in DOMAIN after.nodes : after.nodes[n].state \notin {PENDING, IN_PROGRESS}
       /\ get_tree(root_id)' = None
       /\ \A n \in DOMAIN tree.nodes : get_tree_for_node(n)' = None
       /\ DOMAIN after.nodes = DOMAIN tree.nodes

\* C15: remove_branch(root_id) behaves as cancel_tree followed by remove_tree: the
\* running task is cancelled, no node of the tree is left PENDING or IN_PROGRESS,
\* the tree is no longer in the repository, none of its node ids resolves to a
\* tree, and the removed tree still holds all its nodes (the returned list).
C15_RemoveRootRemovesTree ==
  [][trees' # trees => \A r \in NodeIds : RemoveBranch(r) => RemoveTreePost(r)]_vars

\* d lies below n and d and every node between n and d are PENDING
RECURSIVE PendingBelow(_, _, _)
PendingBelow(tree, n, d) ==
  /\ d \in DOMAIN tree.nodes
  /\ tree.nodes[d].state = PENDING
  /\ \/ tree.nodes[d].parent_id = n
     \/ PendingBelow(tree, n, tree.nodes[d].parent_id)

\* what mark_node_error(n, msg, propagate_to_children) promises
MarkNodeErrorPost(n, msg, propagate_to_children) ==
  LET r == get_tree_for_node(n)
      tree == treeObjs[r]
      m == mark_node_error(n, msg, propagate_to_children)
      after == m.objs[r]
      kids == IF propagate_to_children
              THEN {d \in DOMAIN tree.nodes \ {n} : PendingBelow(tree, n, d)}
              ELSE {}
  IN r # None /\ n \in DOMAIN tree.nodes =>
       /\ after.nodes[n].state = ERROR
       /\ after.nodes[n].error_message = msg
       /\ \A d \in kids : /\ after.nodes[d].state = ERROR
                          /\ after.nodes[d].error_message = ParentFailed(msg)
       /\ \A d \in DOMAIN tree.nodes \ (kids \cup {n}) :
            after.nodes[d].state = tree.nodes[d].state
       /\ Range(m.ret) = kids \cup {n}
       /\ Len(m.ret) = Cardinality(kids \cup {n})
       /\ \A o \in DOMAIN treeObjs \ {r} : m.objs[o] = treeObjs[o]

MarkNodeErrorPostActive(n, msg, propagate_to_children) ==
  LET r == get_tree_for_node(n)
      tree == treeObjs[r]
      m == mark_node_error(n, msg, propagate_to_children)
      after == m.objs[r]
      kids == IF propagate_to_children
              THEN {d \in DOMAIN tree.nodes \ {n} : PendingBelow(tree, n, d)}
              ELSE {}
  IN r # None /\ n \in DOMAIN tree.nodes =>
       /\ IF tree.nodes[n].state \in {PENDING, IN_PROGRESS}
          THEN /\ after.nodes[n].state = ERROR
               /\ after.nodes[n].error_message = msg
          ELSE after.nodes[n] = tree.nodes[n]
       /\ \A d \in kids : /\ after.nodes[d].state = ERROR
                          /\ after.nodes[d].error_message = ParentFailed(msg)
       /\ \A d \in DOMAIN tree.nodes \ (kids \cup {n}) : after.nodes[d] = tree.nodes[d]
       /\ Range(m.ret) = kids \cup {n}
       /\ Len(m.ret) = Cardinality(kids \cup {n})
       /\ \A o \in DOMAIN treeObjs \ {r} : m.objs[o] = treeObjs[o]

AfterCleanup ==
  [r \in DOMAIN treeObjs |->
     IF r \in trees THEN cleanup_stale_nodes(treeObjs[r]) ELSE treeObjs[r]]

\* C17: cleanup_stale_nodes() leaves no node of any tree PENDING or IN_PROGRESS;
\* every node that was is ERROR "Lost during server restart"; COMPLETED and ERROR
\* nodes are unchanged; the returned count is the number of nodes changed, and a
\* second call returns 0.
C17_CleanupStaleNodes ==
  /\ \A r \in trees : \A n \in DOMAIN treeObjs[r].nodes :
       LET before == treeObjs[r].nodes[n]
           after == AfterCleanup[r].nodes[n]
       IN /\ after.state \notin {PENDING, IN_PROGRESS}
          /\ IF before.state \in {PENDING, IN_PROGRESS}
             THEN after.state = ERROR /\ after.error_message = LostDuringRestart
             ELSE after = before
  /\ stale_count(treeObjs, trees) =
       Cardinality({rn \in trees \X NodeIds :
                      /\ rn[2] \in DOMAIN treeObjs[rn[1]].nodes
                      /\ AfterCleanup[rn[1]].nodes[rn[2]] # treeObjs[rn[1]].nodes[rn[2]]})
  /\ stale_count(AfterCleanup, trees) = 0
  /\ [r \in DOMAIN treeObjs |->
        IF r \in trees THEN cleanup_stale_nodes(AfterCleanup[r]) ELSE AfterCleanup[r]]
       = AfterCleanup

\* C17 witness: cleanup_stale_nodes has reconciled a restored tree: a node is
\* ERROR "Lost during server restart" and its parent, COMPLETED before, is as it was
C17_Witness ==
  \E r \in trees : \E n, d \in DOMAIN treeObjs[r].nodes :
    /\ treeObjs[r].nodes[n].state = ERROR
    /\ treeObjs[r].nodes[n].error_message = LostDuringRestart
    /\ treeObjs[r].nodes[n].parent_id = d
    /\ treeObjs[r].nodes[d].state = COMPLETED
    /\ stale_count(treeObjs, trees) = 0

\* enqueue(n) started the processing of n at once
StartedNow(n) ==
  LET r == get_tree_for_node(n)
      e == enqueue(n)
  IN /\ r # None
     /\ ~treeObjs[r].is_processing /\ treeObjs[r].queue = <<>>
     /\ e.objs[r].nodes[n].state = IN_PROGRESS
     /\ e.objs[r].is_processing
     /\ \E t \in DOMAIN e.tasks \ DOMAIN tasks :
          /\ e.tasks[t] = [tree |-> r, node |-> n, status |-> "running"]
          /\ e.objs[r].current_task = t

\* enqueue(n) appended n to the queue of its tree
Appended(n) ==
  LET r == get_tree_for_node(n)
  IN /\ r # None
     /\ enqueue(n).objs[r].queue = Append(treeObjs[r].queue, n)
     /\ enqueue(n).tasks = tasks

\* C18: enqueue(node_id, job) returns False exactly when the processing of node_id
\* started immediately and True exactly when node_id was appended to the queue of
\* its tree; no call returns False without the node having been started.
C18_EnqueueResult ==
  \A n \in NodeIds :
    CanEnqueue(n) => /\ enqueue(n).ret = FALSE <=> StartedNow(n)
                     /\ enqueue(n).ret = TRUE <=> Appended(n)

\* C19: from the moment a node's job is started until that job terminates (its
\* task is running it, or was cancelled and has not surfaced the cancellation
\* yet), that node is the unique IN_PROGRESS node of its tree and is the tree's
\* current_node_id, whatever cancel_node, cancel_branch, cancel_tree and
\* mark_node_error do in between.
C19_JobNodeIsTheInProgressNode ==
  \A t \in DOMAIN tasks :
    tasks[t].status \in {"running", "cancelled"} =>
      LET tree == treeObjs[tasks[t].tree]
      IN /\ tasks[t].node \in DOMAIN tree.nodes
         /\ \A n \in DOMAIN tree.nodes :
              tree.nodes[n].state = IN_PROGRESS <=> n = tasks[t].node
         /\ tree.current_node_id = tasks[t].node

\* C20: in every reachable state of a tree, is_processing = true implies that the
\* tree's task handle (current_task) is non-null: after enqueue, after each node
\* finishes and the next is dequeued, and after cancel_node or cancel_branch
\* cancels the current task.
C20_ProcessingHasTaskHandle ==
  \A r \in trees : treeObjs[r].is_processing => treeObjs[r].current_task # None

\* node n of tree r is IN_PROGRESS
NodeInProgress(r, n) ==
  IF r \in trees /\ n \in DOMAIN treeObjs[r].nodes
  THEN treeObjs[r].nodes[n].state = IN_PROGRESS
  ELSE FALSE

\* a tree that is not processing has as many exits from IN_PROGRESS as entries
IdleHasNoInProgress ==
  \A r \in NodeIds : \A n \in NodeIds : ~(NodeInProgress(r, n) /\ ~treeObjs[r].is_processing)

\* C21: every node that enters IN_PROGRESS eventually leaves it, into COMPLETED or
\* ERROR (jobs terminate, scheduling is fair), and once the tree is idle the
\* entries into IN_PROGRESS equal the exits: no node of an idle tree is IN_PROGRESS.
C21_InProgressIsLeft ==
  /\ []IdleHasNoInProgress
  /\ \A r \in NodeIds : \A n \in NodeIds : NodeInProgress(r, n) ~> ~NodeInProgress(r, n)

\* a job of tree r has raised
HasFailedJob(r) ==
  IF r \in trees
  THEN \E d \in DOMAIN treeObjs[r].nodes :
         /\ treeObjs[r].nodes[d].state = ERROR
         /\ treeObjs[r].nodes[d].error_message \in JobErrors
  ELSE FALSE

\* node n waits in the queue of tree r, untouched by the failure
QueuedPending(r, n) ==
  IF r \in trees /\ n \in DOMAIN treeObjs[r].nodes
  THEN n \in Range(treeObjs[r].queue) /\ treeObjs[r].nodes[n].state = PENDING
  ELSE FALSE

\* tree r is processing
Processing(r) == IF r \in trees THEN treeObjs[r].is_processing ELSE FALSE

\* tree r has stopped processing with its queue exhausted
Exhausted(r) ==
  IF r \in trees
  THEN ~treeObjs[r].is_processing /\ treeObjs[r].queue = <<>>
  ELSE FALSE

\* the job of node n is running and n is IN_PROGRESS
Started(r, n) ==
  /\ NodeInProgress(r, n)
  /\ \E t \in DOMAIN tasks :
       tasks[t].tree = r /\ tasks[t].node = n /\ tasks[t].status = "running"

\* C22: a failing job does not stall its tree: once a job of the tree has raised
\* and its node is ERROR, every node still queued and PENDING (not a descendant
\* the failure marked) is eventually started, and the tree eventually stops
\* processing when its queue is exhausted.
C22_FailureDoesNotStall ==
  \A r \in NodeIds :
    /\ \A n \in NodeIds : (QueuedPending(r, n) /\ HasFailedJob(r)) ~> Started(r, n)
    /\ (Processing(r) /\ HasFailedJob(r)) ~> Exhausted(r)

\* C22 witness: a job of the tree raised while another node, not below the failed
\* one, was queued, and that node's job is now running
C22_Witness ==
  \E r \in trees : \E d, n \in DOMAIN treeObjs[r].nodes :
    /\ treeObjs[r].nodes[d].state = ERROR
    /\ treeObjs[r].nodes[d].error_message \in JobErrors
    /\ treeObjs[r].nodes[d].parent_id = r
    /\ treeObjs[r].nodes[n].parent_id = r
    /\ d # n
    /\ Started(r, n)
    /\ treeObjs[r].nodes[r].state = COMPLETED

\* what cancel_tree(r) promises about the labels of the nodes
CancelTreeLabels(r) ==
  LET tree == treeObjs[r]
      c == cancel_tree(r)
      after == c.tree
      active == {n \in DOMAIN tree.nodes : tree.nodes[n].state \in {PENDING, IN_PROGRESS}}
      running == {n \in active : \E t \in DOMAIN tasks :
                    tasks[t].tree = r /\ tasks[t].node = n /\ tasks[t].status = "running"}
      byUser == running \cup (active \cap Range(tree.queue))
  IN /\ \A n \in byUser : /\ after.nodes[n].state = ERROR
                          /\ after.nodes[n].error_message = CancelledByUser
     /\ Range(c.ret) = byUser
     /\ \A n \in active \ byUser : /\ after.nodes[n].state = ERROR
                                   /\ after.nodes[n].error_message = StaleCleanedUp
     /\ \A n \in DOMAIN tree.nodes \ active :
          /\ after.nodes[n].state = tree.nodes[n].state
          /\ after.nodes[n].error_message = tree.nodes[n].error_message

\* C23: cancel_tree labels nodes by cause: the node that was running and every
\* node that was in the queue end ERROR "Cancelled by user" and are exactly the
\* nodes returned; any other PENDING or IN_PROGRESS node ends ERROR "Stale task
\* cleaned up" and is not returned; COMPLETED and ERROR nodes keep state and message.
C23_CancelTreeLabels ==
  \A r \in trees : CancelTreeLabels(r)

\* C24: after cancel_tree(r) returns the tree is idle: is_processing is false,
\* current_node_id is none, the queue is empty and every task that was running a
\* job of the tree has been cancelled.
C24_CancelTreeLeavesIdle ==
  \A r \in trees :
    LET c == cancel_tree(r)
    IN /\ ~c.tree.is_processing
       /\ c.tree.current_node_id = None
       /\ c.tree.queue = <<>>
       /\ \A t \in DOMAIN tasks :
            tasks[t].tree = r /\ tasks[t].status = "running" =>
              c.tasks[t].status = "cancelled"

\* C25: after remove_tree(root) node_to_tree contains no entry whose value is
\* root: every id that resolved to the removed tree, node ids and status-message
\* ids registered through register_node alike, no longer resolves to any tree.
C25_RemoveTreeClearsIndex ==
  \A r \in trees :
    LET map == remove_tree_map(node_to_tree, treeObjs[r])
    IN \A n \in NodeIds :
         /\ map[n] # r
         /\ node_to_tree[n] = r => (map[n] = None \/ map[n] \notin trees \ {r})

\* node n of tree object r is ERROR "Cancelled by user"
UserCancelled(r, n) ==
  /\ n \in DOMAIN treeObjs[r].nodes
  /\ treeObjs[r].nodes[n].state = ERROR
  /\ treeObjs[r].nodes[n].error_message = CancelledByUser

RECURSIVE Flatten(_)
Flatten(ss) == IF ss = <<>> THEN <<>> ELSE Head(ss) \o Flatten(Tail(ss))

\* the input text: what was fed, whatever the chunks it came in
Input == Flatten(fed)

\* the emitted text, character by character, each with the kind it was emitted as
RECURSIVE Labelled(_)
Labelled(cs) ==
  IF cs = <<>> THEN <<>>
  ELSE [i \in 1..Len(Head(cs).text) |-> [kind |-> Head(cs).kind, ch |-> Head(cs).text[i]]]
       \o Labelled(Tail(cs))

KindOf(inside) == IF inside THEN THINK ELSE TEXT

\* the input with every literal tag removed; a tag switches the kind of what follows
RECURSIVE EveryTagRemoved(_, _)
EveryTagRemoved(s, inside) ==
  IF s = <<>> THEN <<>>
  ELSE IF IsPrefix(OPEN_TAG, s) THEN EveryTagRemoved(Drop(s, Len(OPEN_TAG)), TRUE)
  ELSE IF IsPrefix(CLOSE_TAG, s) THEN EveryTagRemoved(Drop(s, Len(CLOSE_TAG)), FALSE)
  ELSE <<[kind |-> KindOf(inside), ch |-> Head(s)]>> \o EveryTagRemoved(Tail(s), inside)

\* the input with the matching tags removed: an opening tag outside a think section
\* and the first closing tag after it; any other tag is literal text, and the
\* beginning of the awaited tag that ends the input is TEXT
RECURSIVE MatchingTagsRemoved(_, _)
MatchingTagsRemoved(s, inside) ==
  LET tag == IF inside THEN CLOSE_TAG ELSE OPEN_TAG
  IN  IF s = <<>> THEN <<>>
      ELSE IF IsPrefix(tag, s) THEN MatchingTagsRemoved(Drop(s, Len(tag)), ~inside)
      ELSE IF IsPrefix(s, tag) THEN [i \in 1..Len(s) |-> [kind |-> TEXT, ch |-> s[i]]]
      ELSE <<[kind |-> KindOf(inside), ch |-> Head(s)]>>
           \o MatchingTagsRemoved(Tail(s), inside)

\* the stream has ended and some text was fed
Parsed == finalized /\ fed # <<>>

Positions(type) == {i \in 1..Len(events) : events[i].type = type}
Starts == Positions("content_block_start")
Stops == Positions("content_block_stop")

\* message_start is the first event
MessageStartFirst == events # <<>> /\ events[1].type = "message_start"

\* after every event, at most one started block is not yet stopped
AtMostOneOpen ==
  \A k \in 1..Len(events) :
    Cardinality({i \in Starts : i <= k}) - Cardinality({i \in Stops : i <= k}) \in {0, 1}

\* a block started later has a greater index
IndicesIncrease ==
  \A i, j \in Starts : i < j => events[i].index < events[j].index

\* every started index is stopped once, after its start and before message_delta
StoppedOnce ==
  \A i \in Starts :
    LET stops == {j \in Stops : events[j].index = events[i].index}
    IN  /\ Cardinality(stops) = 1
        /\ \A j \in stops : i < j /\ \A d \in Positions("message_delta") : j < d

\* one message_delta, followed by the one message_stop, which is the last event
EndsWithStop ==
  /\ Positions("message_delta") = {Len(events) - 1}
  /\ Positions("message_stop") = {Len(events)}

WellFormed ==
  /\ MessageStartFirst
  /\ AtMostOneOpen
  /\ IndicesIncrease
  /\ StoppedOnce
  /\ EndsWithStop

EndsInFinalize == ops # <<>> /\ ops[Len(ops)] = "finalize"

\* C28: for every sequence of builder operations ending in finalize, message_start
\* is the first event, at most one content block is open at any time, block
\* indices are assigned in strictly increasing open order and never reused, every
\* opened index gets exactly one content_block_stop before message_delta, and
\* message_delta is followed by message_stop as the last event
C28_WellFormedStream ==
  EndsInFinalize => WellFormed

\* the sequence begins with start_message and finalize is its last operation only
StartedAndFinalizedOnce ==
  /\ EndsInFinalize
  /\ ops[1] = "start_message"
  /\ \A i \in 1..(Len(ops) - 1) : ops[i] # "finalize"

\* C28, for the sequences a stream makes: when the operations begin with
\* start_message and finalize is called once, as the last of them, message_start
\* is the first event, at most one content block is open at any time, block
\* indices strictly increase in open order, every opened index gets exactly one
\* content_block_stop before message_delta, and message_delta is followed by
\* message_stop as the last event
C28_WellFormedStartedStream ==
  StartedAndFinalizedOnce => WellFormed

\* a thinking block from reasoning_details, closed by the text block behind it
C28_Witness ==
  /\ ops = <<"start_message", "_handle_extra_reasoning", "ensure_text_block",
             "emit_text_delta", "finalize">>
  /\ Len(events) = 10
  /\ events[2] = Event("content_block_start", 0, "thinking")
  /\ events[4] = Event("content_block_delta", 0, "thinking_delta")
  /\ events[5] = Event("content_block_stop", 0, "none")
  /\ events[6] = Event("content_block_start", 1, "text")
  /\ events[8] = Event("content_block_stop", 1, "none")

(***************************************************************************)
(* Properties of the converted content.                                    *)
(***************************************************************************)
\* the blocks convert_response extracts from the upstream message
Extracted(message) ==
  thinking_blocks(message) \o content_blocks(message) \o tool_use_blocks(message)

SpaceBlock == [type |-> "text", text |-> <<" ">>]

SaysOverloaded(message) ==
  \E i \in 1..Len(message) :
    message[i] \in {"overloaded", "Overloaded", "OVERLOADED",
                    "capacity", "Capacity", "CAPACITY"}

Is5xx(e) == e.status_code # None /\ e.status_code >= 500 /\ e.status_code <= 599

\* C30: the mapping is total and follows the taxonomy: an authentication error maps
\* to AuthenticationError, a 429 to RateLimitError, a 400 to InvalidRequestError,
\* a 5xx whose message says overloaded or capacity (any letter case) to
\* OverloadedError, any other 5xx to APIError carrying the upstream status code,
\* and an exception of no known kind is returned unchanged
C30_ErrorTaxonomy ==
  mapped # NotMapped =>
    /\ raised.class = "AuthenticationError" => mapped.class = "AuthenticationError"
    /\ raised.status_code = 429 => mapped.class = "RateLimitError"
    /\ raised.status_code = 400 => mapped.class = "InvalidRequestError"
    /\ Is5xx(raised) /\ SaysOverloaded(raised.message) => mapped.class = "OverloadedError"
    /\ Is5xx(raised) /\ ~SaysOverloaded(raised.message) =>
         mapped.class = "APIError" /\ mapped.status_code = raised.status_code
    /\ raised.class \notin APIErrorClasses => mapped = raised

(***************************************************************************)
(* Properties of the request builder.                                      *)
(***************************************************************************)
Built == body # NotBuilt

\* the extra_body of the built body, empty when it has none
BuiltExtra == IF "extra_body" \in DOMAIN body THEN body["extra_body"] ELSE EmptyDict

HintKeys == {"thinking", "reasoning_split", "chat_template_kwargs"}

\* the keys the request itself puts in the body
RequestKeys ==
  {"model", "messages", "max_tokens", "extra_body"}
    \cup (IF request_data.temperature # "None" THEN {"temperature"} ELSE {})

\* the keys of the body that come from the provider's defaults
DefaultsAdded == (DOMAIN body \ RequestKeys) \cap DOMAIN nim_params

\* the default is None or the value that means unset
IsUnset(key) == nim_params[key] = "None" \/ (key = "top_k" /\ nim_params[key] = "-1")

CallerKeysKept ==
  \A k \in DOMAIN request_data.extra_body :
    k \in DOMAIN BuiltExtra /\ BuiltExtra[k] = request_data.extra_body[k]

HintsOnlyWhenEnabled ==
  /\ DOMAIN BuiltExtra \ DOMAIN request_data.extra_body \subseteq HintKeys
  /\ DOMAIN BuiltExtra # DOMAIN request_data.extra_body => thinking_enabled(request_data)

DefaultsOnlyWhenSet ==
  \A k \in DefaultsAdded :
    /\ k \notin DOMAIN BuiltExtra
    /\ ~IsUnset(k)

\* C31: building the upstream body never overrides what the caller set: every key
\* of request.extra_body keeps the caller's value in the built body, the thinking
\* hints are added only when thinking is enabled and only for keys the caller did
\* not set, and a provider default is added only when its key is in neither the
\* body nor extra_body and its value is not None or its ignore value
C31_CallerIsNeverOverridden ==
  Built => CallerKeysKept /\ HintsOnlyWhenEnabled /\ DefaultsOnlyWhenSet

\* C32: with a configured maximum M, the max_tokens of the built body is at most M
\* and equals the request's max_tokens whenever that is at most M
C32_MaxTokensCapped ==
  Built /\ "max_tokens" \in DOMAIN nim_params =>
    /\ body["max_tokens"] <= nim_params["max_tokens"]
    /\ request_data.max_tokens <= nim_params["max_tokens"] =>
         body["max_tokens"] = request_data.max_tokens

(***************************************************************************)
(* Properties of token counting.                                           *)
(***************************************************************************)
\* the cost of an image: by the length of its data, or 765 without data
ImageCost(block) == IF block.data = NoData THEN 765 ELSE Max(85, block.data \div 3000)

\* the texts and the overhead of one block, by the table of overheads
BlockCost(block) ==
  CASE block.type = "text" -> block.text
    [] block.type = "thinking" -> block.thinking
    [] block.type = "tool_use" -> block.name + block.input + 15
    [] block.type = "tool_result" -> block.content + 8
    [] block.type = "image" -> ImageCost(block)

RECURSIVE BlocksCost(_)
BlocksCost(blocks) ==
  IF blocks = <<>> THEN 0 ELSE BlockCost(Head(blocks)) + BlocksCost(Tail(blocks))

RECURSIVE MessagesCost(_)
MessagesCost(messages) ==
  IF messages = <<>> THEN 0
  ELSE 4 + (IF Head(messages).content.type = "str" THEN Head(messages).content.text
            ELSE BlocksCost(Head(messages).content.blocks))
       + MessagesCost(Tail(messages))

RECURSIVE ToolsCost(_)
ToolsCost(tools) ==
  IF tools = <<>> THEN 0 ELSE Head(tools).tool_str + 5 + ToolsCost(Tail(tools))

RequestCost(request) ==
  MessagesCost(request.messages)
  + (IF request.system.present THEN request.system.text + 4 ELSE 0)
  + ToolsCost(request.tools)

\* C33: the count equals the encoded lengths of the request's texts plus 4 per
\* message, 15 per tool_use block, 8 per tool_result block, 4 for a present system
\* prompt and 5 per tool definition, an image costing max(85, len(data) div 3000)
\* or 765 without data; the result is never below 1
C33_TokenCountArithmetic ==
  input_tokens # NotCounted =>
    /\ input_tokens >= 1
    /\ input_tokens = Max(1, RequestCost(count_request))

(***************************************************************************)
(* Properties of the provider cache.                                       *)
(***************************************************************************)
\* since the last completed cleanup every get of a type gave one instance
SameInstance == \A t \in ProviderTypes : Cardinality(got[t]) <= 1

\* a get whose build fails leaves the cache as it is
FailedGetAddsNothing ==
  last_get' # last_get /\ last_get'.raised # "none" => provider_cache' = provider_cache

\* cleanup_provider returns in this step
CleanupReturns ==
  /\ cleanup.pc = "closing"
  /\ cleanup'.pc = "idle"
  /\ Len(provider_cache) = cleanup.size

\* when cleanup_provider returns the cache is empty and every client that was
\* cached has been closed once
ReturnedCleanupClosedAll ==
  CleanupReturns =>
    /\ provider_cache' = <<>>
    /\ \A p \in CachedProviders(provider_cache) : closes'[p] = 1

\* a get on an empty cache that does not fail builds an instance never seen before
GetOnEmptyBuilds ==
  /\ provider_cache = <<>>
  /\ last_get' # last_get \/ provider_cache' # provider_cache
  /\ last_get'.raised = "none"
  => /\ last_get'.built
     /\ last_get'.provider = Len(closes) + 1
     /\ closes'[last_get'.provider] = 0

\* C34: for each provider type every ProviderFactory.get between two cleanups
\* returns the same instance, built at most once, whichever factory object is
\* used; a get whose build fails adds no cache entry; after cleanup_provider
\* returns, every cached client has been closed once, the cache is empty and the
\* next get builds a new instance
C34_ProviderCache ==
  /\ []SameInstance
  /\ [][FailedGetAddsNothing /\ ReturnedCleanupClosedAll /\ GetOnEmptyBuilds]_vars

(***************************************************************************)
(* Properties of the manager: frames, index, queue and reuse of a tree.    *)
(***************************************************************************)
\* the step keeps state and error_message of every node but n, in every tree
OtherNodesKept(n) ==
  \A r \in DOMAIN treeObjs :
    /\ DOMAIN treeObjs'[r].nodes = DOMAIN treeObjs[r].nodes
    /\ \A m \in DOMAIN treeObjs[r].nodes \ {n} :
         /\ treeObjs'[r].nodes[m].state = treeObjs[r].nodes[m].state
         /\ treeObjs'[r].nodes[m].error_message = treeObjs[r].nodes[m].error_message

\* the step keeps the order of the queued nodes other than n, in every tree
OtherQueuedKept(n) ==
  \A r \in DOMAIN treeObjs : RemoveAll(treeObjs'[r].queue, n) = RemoveAll(treeObjs[r].queue, n)

\* the jobs the step cancels are jobs of n
CancelsOnlyJobsOf(n) ==
  \A t \in DOMAIN tasks :
    tasks'[t].status = "cancelled" /\ tasks[t].status # "cancelled" => tasks[t].node = n

C37_NoDanglingIndexEntries ==
  \A n \in NodeIds : node_to_tree[n] # None => node_to_tree[n] \in trees

\* C38: queue contents: in every reachable state every node id in a tree's queue
\* denotes a node of that tree in state PENDING; no operation that moves a node to
\* ERROR leaves it in the queue
C38_QueuedNodesArePending ==
  \A r \in trees : \A n \in Range(treeObjs[r].queue) :
    /\ n \in DOMAIN treeObjs[r].nodes
    /\ treeObjs[r].nodes[n].state = PENDING

\* C39: remove_branch(b) for a non-root b leaves no removed node id in the
\* tree's queue, and the tree's current node is not a removed node.
C39_RemovedBranchLeavesProcessing ==
  [][\A b \in NodeIds :
       LET r == get_tree_for_node(b)
           tree == treeObjs[r]
           gone == Range(get_descendants(tree, b))
       IN RemoveBranch(b) /\ b # tree.root_id /\ b \in DOMAIN tree.nodes =>
            /\ Range(treeObjs'[r].queue) \cap gone = {}
            /\ treeObjs'[r].current_node_id \notin gone]_vars

\* The job t was cancelled: it has the cancellation pending, or it has handled
\* it (its node is ERROR "Cancelled by user") and is back in its loop.
WasCancelled(t) ==
  LET tree == treeObjs[tasks[t].tree]
      n == tasks[t].node
  IN \/ tasks[t].status = "cancelled"
     \/ /\ tasks[t].status = "drain"
        /\ n \in DOMAIN tree.nodes
        /\ tree.nodes[n].state = ERROR
        /\ tree.nodes[n].error_message = CancelledByUser

\* The cancelled job t has not left its loop, while another job of the same
\* tree is running a node started after the cancellation.
UnwindsBeside(t, new) ==
  /\ t \in DOMAIN tasks /\ new \in DOMAIN tasks /\ t # new
  /\ tasks[t].tree = tasks[new].tree
  /\ WasCancelled(t)
  /\ tasks[new].status = "running"
  /\ treeObjs[tasks[new].tree].current_node_id = tasks[new].node

NewNodeUndisturbed(new) ==
  LET r == tasks[new].tree
      n == tasks[new].node
  IN /\ treeObjs'[r].current_node_id = treeObjs[r].current_node_id
     /\ n \in DOMAIN treeObjs[r].nodes =>
          /\ n \in DOMAIN treeObjs'[r].nodes
          /\ treeObjs'[r].nodes[n].state = treeObjs[r].nodes[n].state

\* C40: a tree stays usable after cancel_tree: when cancel_tree returns the
\* tree is idle with an empty queue, so the next enqueue starts its node at
\* once, and no step of the cancelled job while it unwinds changes the state
\* of the node started after the cancellation or the tree's current_node_id.
C40_TreeUsableAfterCancelTree ==
  [][/\ \A r \in NodeIds :
          CancelTree(r) => ~treeObjs'[r].is_processing /\ treeObjs'[r].queue = <<>>
     /\ \A t \in TaskIds, new \in TaskIds :
          UnwindsBeside(t, new) /\ (JobUnwind(t) \/ DrainNext(t)) => NewNodeUndisturbed(new)]_vars

\* The manager loaded from the saved form of the current one, and the same
\* manager after cleanup_stale_nodes.
Restored == from_dict(to_dict)

RestoredCleaned == [r \in DOMAIN Restored._trees |-> cleanup_stale_nodes(Restored._trees[r])]

RestoredLookup(n) ==
  IF n \in DOMAIN Restored._node_to_tree THEN Restored._node_to_tree[n] ELSE None

====
